---- MODULE Spec2Model ----
(***************************************************************************)
(* Model of the statistical aggregation engine of mater's backend          *)
(* (backend/src/analytics_calculator.rs): the minutes filter and the       *)
(* aggregator (calculate_averages_for_games), the percentile ranker        *)
(* (calculate_percentile), the two selectors                               *)
(* (calculate_last_x_games_averages,                                       *)
(* calculate_player_averages_by_date_range), the grouping driver           *)
(* (calculate_and_insert_season_averages) and batch ranking                *)
(* (calculate_and_insert_season_percentiles), and of the service that      *)
(* runs them (backend/src/main.rs): the startup sequence of main and the   *)
(* rolling-averages endpoint.                                              *)
(*                                                                         *)
(* Numbers.  An f64 is modelled as an exact rational <<n, d>> in lowest    *)
(* terms with d > 0; the inputs are integer-valued, so every sum the code  *)
(* forms is exact, and the quotients are the exact quotients.  <<0, 0>>    *)
(* stands for NaN (the f64 result of 0.0 / 0.0).  The ranker is evaluated  *)
(* a second time in binary64, bit for bit, where rounding matters.         *)
(* An Option<T> is a sequence of length 0 (None) or 1 (Some(x)).           *)
(***************************************************************************)
EXTENDS Integers, Sequences, FiniteSets, TLC

VARIABLES
    games_raw,     \* the slice handed to calculate_averages_for_games
    averages,      \* its result: Option<PlayerSeasonAverages>
    pc,            \* "input" while the slice is assembled, "done" after the call
    sorted_data,   \* the population handed to calculate_percentile
    value,         \* the value ranked against it
    percentile,    \* the result of calculate_percentile
    ppc,           \* "input" while the population is assembled, "done" after the call
    percentile64,  \* the result of calculate_percentile as binary64 rounds it
    all_game_stats,  \* the collection handed to the selectors
    num_games,       \* argument of calculate_last_x_games_averages
    start_date_num,  \* arguments of calculate_player_averages_by_date_range
    end_date_num,
    slice_games,     \* the slice a selector passes to the aggregator
    selected,        \* the result of the selector: Option<PlayerSeasonAverages>
    spc,             \* "input", then "last_x" or "range": the selector that ran
    player_season_games,  \* the groups of calculate_and_insert_season_averages
    season_averages,      \* the records it computes, in the order of its loop
    avg_inserted,         \* the records it has inserted into player_season_avg_stats
    avg_result,           \* "pending" before it runs, then "Ok" or "Err"
    all_season_averages,  \* the population handed to calculate_and_insert_season_percentiles
    season_percentiles,   \* the records it computes
    pct_inserted,         \* the records it has inserted into player_season_percentiles
    pct_result,           \* "pending" before it runs, then "Ok" or "Err"
    db_game_stats,        \* the rows of stats.game_stats, in the order a scan yields them
    mpc,                  \* the position of main
    rpc,                  \* the position of get_player_rolling_averages_endpoint
    team_code,            \* its query parameters: Option<String>, Option<i32>
    query_year,
    start_date_str,       \* the ends of its date window
    end_date_str,
    rolling_game_stats,   \* the collection it fetched
    player_keys,          \* the keys of its HashSet that its loop has not visited yet
    rolling_averages,     \* the Vec<PlayerRollingAverages> of its loop
    rolling_with_percentiles  \* the body of its response

\* the variables of the aggregator, of the ranker and of the selectors
aggVars == <<games_raw, averages, pc>>

pctVars == <<sorted_data, value, percentile, ppc, percentile64>>

selVars ==
    <<all_game_stats, num_games, start_date_num, end_date_num, slice_games,
      selected, spc>>

grpVars == <<player_season_games, season_averages, avg_inserted, avg_result>>

rnkVars == <<all_season_averages, season_percentiles, pct_inserted, pct_result>>

\* the variables of main and of the rolling-averages endpoint
mainVars == <<db_game_stats, mpc>>

rolVars ==
    <<rpc, team_code, query_year, start_date_str, end_date_str,
      rolling_game_stats, player_keys, rolling_averages, rolling_with_percentiles>>

vars == <<aggVars, pctVars, selVars, grpVars, rnkVars, mainVars, rolVars>>

(***************************************************************************)
(* Bounds of the model.                                                    *)
(***************************************************************************)
\* longest slice of the minutes family
MaxGames == 3
\* longest slice of the two shooting families
MaxShotGames == 2
\* largest population handed to calculate_percentile
MaxPopulation == 5

(***************************************************************************)
(* Option<T> and f64.                                                      *)
(***************************************************************************)
None == <<>>

Some(x) == <<x>>

\* Option::unwrap_or_default for the numeric fields: the default is 0
unwrap_or_default(o) == IF o = None THEN 0 ELSE o[1]

Abs(i) == IF i < 0 THEN -i ELSE i

RECURSIVE GCD(_, _)
GCD(a, b) == IF b = 0 THEN a ELSE GCD(b, a % b)

\* the rational n / d (d # 0) in lowest terms with a positive denominator
Rat(n, d) ==
    LET g == GCD(Abs(n), Abs(d))
        s == IF d < 0 THEN -1 ELSE 1
    IN  <<(s * n) \div g, (s * d) \div g>>

\* `i as f64`
F(i) == <<i, 1>>

NaN == <<0, 0>>

\* f64 arithmetic; NaN propagates, and 0.0 / 0.0 is NaN (the code never
\* divides a nonzero value by 0.0)
RAdd(a, b) ==
    IF a = NaN \/ b = NaN THEN NaN
    ELSE Rat(a[1] * b[2] + b[1] * a[2], a[2] * b[2])

RMul(a, b) ==
    IF a = NaN \/ b = NaN THEN NaN ELSE Rat(a[1] * b[1], a[2] * b[2])

RDiv(a, b) ==
    IF a = NaN \/ b = NaN \/ b[1] = 0 THEN NaN
    ELSE Rat(a[1] * b[2], a[2] * b[1])

\* f64 comparisons; every comparison with NaN is false
RLt(a, b) == a # NaN /\ b # NaN /\ a[1] * b[2] < b[1] * a[2]

RLe(a, b) == a # NaN /\ b # NaN /\ a[1] * b[2] <= b[1] * a[2]

\* the literals 0.5 and 0.44 of the shooting formulas
Half == <<1, 2>>

Pt44 == <<11, 25>>

(***************************************************************************)
(* binary64.  The rationals above are the values the code would compute    *)
(* without rounding.  Where a claim depends on the rounding of f64, the    *)
(* same expression is evaluated in IEEE 754 binary64, round to nearest,    *)
(* ties to even.  A positive f64 is [exp |-> e, bits |-> b], b the         *)
(* MantissaBits bits of its significand, leading bit first (b[1] = 1): its *)
(* value is b[1].b[2]...b[53] x 2^e.  The ranker only forms values between *)
(* 0.0 and 100.0, far from the subnormal and the overflow range.           *)
(***************************************************************************)
\* the precision of f64, hidden bit included
MantissaBits == 53

Zero64 == [exp |-> 0, bits |-> <<>>]

Zeros(k) == [i \in 1..k |-> 0]

\* the binary digits of a natural number, leading digit first; <<>> for 0
RECURSIVE Bin(_)
Bin(k) == IF k = 0 THEN <<>> ELSE Append(Bin(k \div 2), k % 2)

\* a < b for two binary numerals without leading zeros
BitsLess(a, b) ==
    \/ Len(a) < Len(b)
    \/ /\ Len(a) = Len(b)
       /\ \E i \in DOMAIN a :
             a[i] < b[i] /\ \A j \in 1..(i - 1) : a[j] = b[j]

\* the next f64 above x > 0
Succ64(x) ==
    IF \A i \in DOMAIN x.bits : x.bits[i] = 1
    THEN [exp |-> x.exp + 1, bits |-> <<1>> \o Zeros(MantissaBits - 1)]
    ELSE LET j == CHOOSE j \in DOMAIN x.bits :
                     x.bits[j] = 0 /\ \A i \in (j + 1)..MantissaBits : x.bits[i] = 1
         IN  [exp |-> x.exp,
              bits |-> [i \in 1..MantissaBits |->
                           IF i < j THEN x.bits[i] ELSE IF i = j THEN 1 ELSE 0]]

\* the next f64 below x > 0
Pred64(x) ==
    IF \A i \in 2..MantissaBits : x.bits[i] = 0
    THEN [exp |-> x.exp - 1, bits |-> [i \in 1..MantissaBits |-> 1]]
    ELSE LET j == CHOOSE j \in DOMAIN x.bits :
                     x.bits[j] = 1 /\ \A i \in (j + 1)..MantissaBits : x.bits[i] = 0
         IN  [exp |-> x.exp,
              bits |-> [i \in 1..MantissaBits |->
                           IF i < j THEN x.bits[i] ELSE IF i = j THEN 0 ELSE 1]]

\* The f64 nearest to the binary numeral b (b[1] = 1) read as b[1].b[2]... x 2^e,
\* ties to even.
Round64(b, e) ==
    IF b = <<>> THEN Zero64
    ELSE IF Len(b) <= MantissaBits
    THEN [exp |-> e, bits |-> b \o Zeros(MantissaBits - Len(b))]
    ELSE LET keep == [exp |-> e, bits |-> SubSeq(b, 1, MantissaBits)]
             guard == b[MantissaBits + 1]
             sticky == \E i \in (MantissaBits + 2)..Len(b) : b[i] = 1
         IN  IF guard = 1 /\ (sticky \/ b[MantissaBits] = 1)
             THEN Succ64(keep)
             ELSE keep

\* `k as f64` for a natural number k < 2^53
FromInt64(k) == Round64(Bin(k), Len(Bin(k)) - 1)

\* the numeral of b * k + carry, for a numeral b and natural numbers k, carry
RECURSIVE MulBits(_, _, _)
MulBits(b, k, carry) ==
    IF b = <<>> THEN Bin(carry)
    ELSE LET t == b[Len(b)] * k + carry
             rest == SubSeq(b, 1, Len(b) - 1)
         IN  IF t < 2 THEN Append(MulBits(rest, k, 0), t)
             ELSE Append(MulBits(rest, k, t \div 2), t % 2)

\* x * k in f64, for an f64 x >= 0 and a natural number k (k as f64 is exact)
Mul64(x, k) ==
    IF x = Zero64 \/ k = 0 THEN Zero64
    ELSE LET p == MulBits(x.bits, k, 0)
         IN  Round64(p, x.exp + Len(p) - MantissaBits)

\* the numeral of a + b + carry, for two numerals of the same length
RECURSIVE AddBits(_, _, _)
AddBits(a, b, carry) ==
    IF a = <<>> THEN Bin(carry)
    ELSE LET t == a[Len(a)] + b[Len(b)] + carry
             resta == SubSeq(a, 1, Len(a) - 1)
             restb == SubSeq(b, 1, Len(b) - 1)
         IN  IF t < 2 THEN Append(AddBits(resta, restb, 0), t)
             ELSE Append(AddBits(resta, restb, 1), t - 2)

\* x + y in f64, for two f64 x, y >= 0
Add64(x, y) ==
    IF x = Zero64 THEN y
    ELSE IF y = Zero64 THEN x
    ELSE LET hi == IF x.exp >= y.exp THEN x ELSE y
             lo == IF x.exp >= y.exp THEN y ELSE x
             d == hi.exp - lo.exp
             s == AddBits(hi.bits \o Zeros(d), Zeros(d) \o lo.bits, 0)
         IN  Round64(s, hi.exp + Len(s) - (MantissaBits + d))

\* the e with 2^e <= a / b < 2^(e+1), for natural numbers a, b > 0
RECURSIVE QuotientExp(_, _)
QuotientExp(a, b) ==
    IF a >= 2 * b THEN QuotientExp(a, 2 * b) + 1
    ELSE IF a < b THEN QuotientExp(2 * a, b) - 1
    ELSE 0

\* the first k binary digits of r / b (b <= r < 2b), then a digit that is 1
\* when the division left a remainder
RECURSIVE QuotientBits(_, _, _)
QuotientBits(r, b, k) ==
    IF k = 0 THEN <<IF r # 0 THEN 1 ELSE 0>>
    ELSE IF r >= b THEN <<1>> \o QuotientBits(2 * (r - b), b, k - 1)
    ELSE <<0>> \o QuotientBits(2 * r, b, k - 1)

\* The f64 nearest to the rational q >= 0: the f64 quotient of two operands
\* that are exact and whose exact quotient is q.
Div64(q) ==
    IF q[1] = 0 THEN Zero64
    ELSE LET e == QuotientExp(q[1], q[2])
             a == q[1] * (IF e < 0 THEN 2 ^ (-e) ELSE 1)
             b == q[2] * (IF e > 0 THEN 2 ^ e ELSE 1)
         IN  Round64(QuotientBits(a, b, MantissaBits + 1), e)

(***************************************************************************)
(* GameStats (get_game_stats.rs).  The model keeps the fields the          *)
(* calculator reads and the two per-game percentage fields e_fg and ts_per *)
(* it does not read; datetext, opponent, muid, loc and cls are never read  *)
(* by the calculator and are left out.                                     *)
(***************************************************************************)
\* the Option<i32> statistics, in the order of the struct
IntStatFields ==
    <<"opstyle", "quality", "win1", "win2", "dunks_made", "dunks_att",
      "rim_made", "rim_att", "mid_made", "mid_att", "two_pm", "two_pa",
      "tpm", "tpa", "ftm", "fta", "inches">>

\* the Option<f64> statistics, in the order of the struct
FloatStatFields ==
    <<"min_per", "o_rtg", "usage", "e_fg", "ts_per", "orb_per", "drb_per",
      "ast_per", "to_per", "bpm_rd", "obpm", "dbpm", "bpm_net", "pts", "orb",
      "drb", "ast", "tov", "stl", "blk", "stl_per", "blk_per", "pf",
      "possessions", "bpm", "sbpm">>

NumericFields == IntStatFields \o FloatStatFields

KeyFields == {"numdate", "tt", "pp", "pid", "year"}

GameStatsFields == KeyFields \cup {NumericFields[i] : i \in DOMAIN NumericFields}

FieldIndex(f) == CHOOSE i \in DOMAIN NumericFields : NumericFields[i] = f

\* A game of player 42 ("Smith", DUKE, 2026) in which the i-th numeric field
\* holds i * scale (a different value in every field), or nothing when absent.
GameOf(scale, absent) ==
    [f \in GameStatsFields |->
        CASE f = "numdate" -> "20260101"
          [] f = "tt" -> "DUKE"
          [] f = "pp" -> "Smith"
          [] f = "pid" -> Some(42)
          [] f = "year" -> Some(2026)
          [] OTHER -> IF absent THEN None ELSE Some(FieldIndex(f) * scale)]

\* min_per as the feed can deliver it: absent, negative, zero, positive
MinPerDomain == {None, Some(-5), Some(0), Some(20), Some(30)}

\* Minutes family: every min_per, with all statistics present or all absent.
MinutesGames ==
    {[GameOf(1, FALSE) EXCEPT !.min_per = m] : m \in MinPerDomain}
    \cup {[GameOf(2, FALSE) EXCEPT !.min_per = Some(20)],
          [GameOf(1, TRUE) EXCEPT !.min_per = Some(20)],
          [GameOf(1, TRUE) EXCEPT !.min_per = Some(30)],
          GameOf(1, TRUE)}

\* a game without minutes that carries statistics all the same
BenchedGames == {[GameOf(2, FALSE) EXCEPT !.min_per = m] : m \in {None, Some(0)}}

\* two-point and three-point lines <<makes, attempts>> of one game: nothing
\* recorded, makes on positive attempts, makes without attempts, attempts
\* without makes, a negative attempt count
TwoPointLines ==
    {<<None, None>>, <<Some(1), Some(2)>>, <<Some(2), Some(4)>>,
     <<Some(2), Some(2)>>, <<Some(1), Some(4)>>, <<Some(1), Some(-1)>>,
     <<None, Some(2)>>}

ThreePointLines == {<<None, None>>, <<Some(1), Some(2)>>, <<Some(1), None>>}

\* Field-goal family: games with minutes whose two- and three-point lines vary.
FieldGoalGames ==
    {[GameOf(1, FALSE) EXCEPT !.min_per = Some(20),
                              !.two_pm = l2[1], !.two_pa = l2[2],
                              !.tpm = l3[1], !.tpa = l3[2]] :
        l2 \in TwoPointLines, l3 \in ThreePointLines}
    \cup BenchedGames

\* field-goal attempts <<two_pa, tpa>> of one game
AttemptLines ==
    {<<None, None>>, <<Some(-1), None>>, <<Some(2), None>>, <<Some(2), Some(2)>>}

\* True-shooting family: games with minutes whose field-goal and free-throw
\* attempts vary, with 7 points or none recorded.
TrueShootingGames ==
    {[GameOf(1, TRUE) EXCEPT !.min_per = Some(20), !.pts = Some(7),
                             !.two_pa = a[1], !.tpa = a[2], !.fta = ft] :
        a \in AttemptLines, ft \in {None, Some(2), Some(3)}}
    \cup {[GameOf(1, TRUE) EXCEPT !.min_per = Some(20), !.two_pa = Some(2),
                                  !.fta = Some(2)]}
    \cup BenchedGames

(***************************************************************************)
(* calculate_averages_for_games.                                           *)
(***************************************************************************)
\* the filter with `!= 0.0` in place of `> 0.0`
MinutesFilterNonZero(slice) ==
    SelectSeq(slice, LAMBDA game : unwrap_or_default(game.min_per) # 0)

\* lines 38-40: keep the games in which the player logged minutes
MinutesFilter(slice) ==
    SelectSeq(slice, LAMBDA game : unwrap_or_default(game.min_per) > 0)

\* lines 97-140: one accumulator of the loop, `total += game.f.unwrap_or_default()`
RECURSIVE Total(_, _)
Total(games, f) ==
    IF games = <<>> THEN 0
    ELSE unwrap_or_default(Head(games)[f]) + Total(Tail(games), f)

\* a mean over the games in which the field is present only
MeanOfPresent(games, f) ==
    RDiv(F(Total(games, f)),
         F(Len(SelectSeq(games, LAMBDA game : game[f] # None))))

\* `total / avg_games_played`
Mean(games, f) == RDiv(F(Total(games, f)), F(Len(games)))

\* eFG% without the bonus of half a make per three-pointer
EffectiveFieldGoalNoBonus(games) ==
    LET total_two_pm == F(Total(games, "two_pm"))
        total_two_pa == F(Total(games, "two_pa"))
        total_tpm == F(Total(games, "tpm"))
        total_tpa == F(Total(games, "tpa"))
    IN  IF RLt(F(0), RAdd(total_two_pa, total_tpa))
        THEN RDiv(RAdd(total_two_pm, total_tpm), RAdd(total_two_pa, total_tpa))
        ELSE F(0)

\* eFG% as the mean of the per-game e_fg fields
EffectiveFieldGoalMeanOfGames(games) == Mean(games, "e_fg")

\* lines 146-148
EffectiveFieldGoal(games) ==
    LET total_two_pm == F(Total(games, "two_pm"))
        total_two_pa == F(Total(games, "two_pa"))
        total_tpm == F(Total(games, "tpm"))
        total_tpa == F(Total(games, "tpa"))
    IN  IF RLt(F(0), RAdd(total_two_pa, total_tpa))
        THEN RDiv(RAdd(RAdd(total_two_pm, total_tpm), RMul(Half, total_tpm)),
                  RAdd(total_two_pa, total_tpa))
        ELSE F(0)

\* TS% with the free-throw weight 0.5 in place of 0.44
TrueShootingHalfWeight(games) ==
    LET total_two_pa == F(Total(games, "two_pa"))
        total_tpa == F(Total(games, "tpa"))
        total_fta == F(Total(games, "fta"))
        total_pts == F(Total(games, "pts"))
    IN  IF RLt(F(0), RAdd(RAdd(total_two_pa, total_tpa), RMul(Half, total_fta)))
        THEN RDiv(total_pts,
                  RMul(F(2), RAdd(RAdd(total_two_pa, total_tpa),
                                  RMul(Half, total_fta))))
        ELSE F(0)

\* lines 152-154
TrueShooting(games) ==
    LET total_two_pa == F(Total(games, "two_pa"))
        total_tpa == F(Total(games, "tpa"))
        total_fta == F(Total(games, "fta"))
        total_pts == F(Total(games, "pts"))
    IN  IF RLt(F(0), RAdd(RAdd(total_two_pa, total_tpa), RMul(Pt44, total_fta)))
        THEN RDiv(total_pts,
                  RMul(F(2), RAdd(RAdd(total_two_pa, total_tpa),
                                  RMul(Pt44, total_fta))))
        ELSE F(0)

\* lines 49-219: the record built from the games that passed the filter
AveragesRecord(games, player_pid, player_year, player_team, player_name) ==
    LET games_played == Len(games)
    IN  [   pid |-> player_pid,
            year |-> player_year,
            team |-> player_team,
            player_name |-> player_name,
            games_played |-> games_played,
            avg_min_per |-> Mean(games, "min_per"),
            avg_o_rtg |-> Mean(games, "o_rtg"),
            avg_usg |-> Mean(games, "usage"),
            avg_bpm_rd |-> Mean(games, "bpm_rd"),
            avg_obpm |-> Mean(games, "obpm"),
            avg_dbpm |-> Mean(games, "dbpm"),
            avg_bpm_net |-> Mean(games, "bpm_net"),
            avg_bpm |-> Mean(games, "bpm"),
            avg_sbpm |-> Mean(games, "sbpm"),
            avg_pf |-> Mean(games, "pf"),
            avg_possessions |-> Mean(games, "possessions"),
            avg_inches |-> Mean(games, "inches"),
            avg_opstyle |-> Mean(games, "opstyle"),
            avg_quality |-> Mean(games, "quality"),
            avg_win1 |-> Mean(games, "win1"),
            avg_win2 |-> Mean(games, "win2"),
            avg_e_fg |-> EffectiveFieldGoal(games),
            avg_ts_per |-> TrueShooting(games),
            avg_orb_per |-> Mean(games, "orb_per"),
            avg_drb_per |-> Mean(games, "drb_per"),
            avg_ast_per |-> Mean(games, "ast_per"),
            avg_to_per |-> Mean(games, "to_per"),
            avg_stl_per |-> Mean(games, "stl_per"),
            avg_blk_per |-> Mean(games, "blk_per"),
            avg_dunks_made |-> Mean(games, "dunks_made"),
            avg_dunks_att |-> Mean(games, "dunks_att"),
            avg_rim_made |-> Mean(games, "rim_made"),
            avg_rim_att |-> Mean(games, "rim_att"),
            avg_mid_made |-> Mean(games, "mid_made"),
            avg_mid_att |-> Mean(games, "mid_att"),
            avg_two_pm |-> Mean(games, "two_pm"),
            avg_two_pa |-> Mean(games, "two_pa"),
            avg_tpm |-> Mean(games, "tpm"),
            avg_tpa |-> Mean(games, "tpa"),
            avg_ftm |-> Mean(games, "ftm"),
            avg_fta |-> Mean(games, "fta"),
            avg_pts |-> Mean(games, "pts"),
            avg_orb |-> Mean(games, "orb"),
            avg_drb |-> Mean(games, "drb"),
            avg_ast |-> Mean(games, "ast"),
            avg_tov |-> Mean(games, "tov"),
            avg_stl |-> Mean(games, "stl"),
            avg_blk |-> Mean(games, "blk")]

\* the aggregator without the early return of lines 43-47
calculate_averages_unguarded(slice, player_pid, player_year, player_team, player_name) ==
    Some(AveragesRecord(MinutesFilter(slice), player_pid, player_year,
                        player_team, player_name))

calculate_averages_for_games(slice, player_pid, player_year, player_team, player_name) ==
    LET games == MinutesFilter(slice)
        games_played == Len(games)
    IN  IF games_played = 0
        THEN None
        ELSE Some(AveragesRecord(games, player_pid, player_year, player_team,
                                 player_name))

(***************************************************************************)
(* calculate_percentile.  The loop of lines 477-483 yields                 *)
(* <<count_less, count_equal>>.                                            *)
(***************************************************************************)
\* the loop with `<=` in its first test: ties counted as values below
RECURSIVE CountTiesBelow(_, _)
CountTiesBelow(v, data) ==
    IF data = <<>> THEN <<0, 0>>
    ELSE LET c == CountTiesBelow(v, Tail(data))
             data_point == Head(data)
         IN  IF RLe(data_point, v) THEN <<c[1] + 1, c[2]>> ELSE c

\* the loop with two independent tests, `<=` and `==`, in place of if / else if
RECURSIVE CountTiesTwice(_, _)
CountTiesTwice(v, data) ==
    IF data = <<>> THEN <<0, 0>>
    ELSE LET c == CountTiesTwice(v, Tail(data))
             data_point == Head(data)
         IN  <<c[1] + (IF RLe(data_point, v) THEN 1 ELSE 0),
               c[2] + (IF data_point = v THEN 1 ELSE 0)>>

\* the loop with the comparison turned round: values above counted as below
RECURSIVE CountAbove(_, _)
CountAbove(v, data) ==
    IF data = <<>> THEN <<0, 0>>
    ELSE LET c == CountAbove(v, Tail(data))
             data_point == Head(data)
         IN  IF RLt(v, data_point) THEN <<c[1] + 1, c[2]>>
             ELSE IF data_point = v THEN <<c[1], c[2] + 1>>
             ELSE c

RECURSIVE CountLessEqual(_, _)
CountLessEqual(v, data) ==
    IF data = <<>> THEN <<0, 0>>
    ELSE LET c == CountLessEqual(v, Tail(data))
             data_point == Head(data)
         IN  IF RLt(data_point, v) THEN <<c[1] + 1, c[2]>>
             ELSE IF data_point = v THEN <<c[1], c[2] + 1>>
             ELSE c

\* lines 473-487, without the guard of lines 469-471
PercentileRank(v, data) ==
    LET n == F(Len(data))
        c == CountLessEqual(v, data)
        count_less == F(c[1])
        count_equal == F(c[2])
    IN  RMul(RDiv(RAdd(count_less, RMul(Half, count_equal)), n), F(100))

\* the ranker without the guard of lines 469-471
calculate_percentile_unguarded(v, data) == PercentileRank(v, data)

calculate_percentile(v, data) ==
    IF data = <<>> THEN F(0) ELSE PercentileRank(v, data)

\* Lines 473-487 as binary64 evaluates them.  The counts, 0.5 * count_equal and
\* their sum are exact; the quotient by n and the product by 100.0 are rounded.
PercentileRank64(v, data) ==
    LET n == F(Len(data))
        c == CountLessEqual(v, data)
        count_less == F(c[1])
        count_equal == F(c[2])
    IN  Mul64(Div64(RDiv(RAdd(count_less, RMul(Half, count_equal)), n)), 100)

calculate_percentile64(v, data) ==
    IF data = <<>> THEN Zero64 ELSE PercentileRank64(v, data)

(***************************************************************************)
(* The selectors.  A numdate, start_date_num and end_date_num are strings  *)
(* of decimal digits, modelled as sequences of digits; Rust compares two   *)
(* strings byte by byte, a proper prefix being the lesser.                 *)
(***************************************************************************)
\* a < b for two strings
RECURSIVE StrLt(_, _)
StrLt(a, b) ==
    IF b = <<>> THEN FALSE
    ELSE IF a = <<>> THEN TRUE
    ELSE IF Head(a) # Head(b) THEN Head(a) < Head(b)
    ELSE StrLt(Tail(a), Tail(b))

StrLe(a, b) == a = b \/ StrLt(a, b)

\* the test without the team
MatchesPidYear(game, player_id, player_year, player_team) ==
    /\ game.pid = Some(player_id)
    /\ game.year = Some(player_year)

\* the test without the year
MatchesPidTeam(game, player_id, player_year, player_team) ==
    /\ game.pid = Some(player_id)
    /\ game.tt = player_team

\* the test of lines 363-367 and 439-441
MatchesPlayer(game, player_id, player_year, player_team) ==
    /\ game.pid = Some(player_id)
    /\ game.year = Some(player_year)
    /\ game.tt = player_team

\* `sorted` with `game` inserted behind every element whose numdate is not greater
RECURSIVE InsertByNumdate(_, _)
InsertByNumdate(sorted, game) ==
    IF sorted = <<>> THEN <<game>>
    ELSE IF StrLt(game.numdate, sorted[Len(sorted)].numdate)
    THEN Append(InsertByNumdate(SubSeq(sorted, 1, Len(sorted) - 1), game),
                sorted[Len(sorted)])
    ELSE Append(sorted, game)

\* the sort left out: the records in the order of the collection
SortSkipped(games) == games

\* sort_by(|a, b| a.numdate.cmp(&b.numdate)): ascending and stable
RECURSIVE SortByNumdate(_)
SortByNumdate(games) ==
    IF games = <<>> THEN <<>>
    ELSE InsertByNumdate(SortByNumdate(SubSeq(games, 1, Len(games) - 1)),
                         games[Len(games)])

\* the name lines 391 and 454 take from a slice
NameOfFirst(slice) == IF slice = <<>> THEN "Unknown" ELSE slice[1].pp

\* the slice when fewer records than asked for count as not enough
LastXSliceOrNothing(games, player_id, player_year, player_team, n) ==
    LET player_games ==
            SortByNumdate(SelectSeq(games,
                LAMBDA game : MatchesPlayer(game, player_id, player_year, player_team)))
    IN  IF Len(player_games) >= n
        THEN SubSeq(player_games, Len(player_games) - n + 1, Len(player_games))
        ELSE <<>>

\* the tail taken after the minutes filter instead of before it
LastXSliceOfPlayed(games, player_id, player_year, player_team, n) ==
    LET player_games ==
            SortByNumdate(MinutesFilter(SelectSeq(games,
                LAMBDA game : MatchesPlayer(game, player_id, player_year, player_team))))
    IN  IF Len(player_games) > n
        THEN SubSeq(player_games, Len(player_games) - n + 1, Len(player_games))
        ELSE player_games

\* lines 361-383: slice_games
LastXSlice(games, player_id, player_year, player_team, n) ==
    LET player_games ==
            SortByNumdate(SelectSeq(games,
                LAMBDA game : MatchesPlayer(game, player_id, player_year, player_team)))
    IN  IF Len(player_games) > n
        THEN SubSeq(player_games, Len(player_games) - n + 1, Len(player_games))
        ELSE player_games

calculate_last_x_games_averages(games, player_id, player_year, player_team, n) ==
    LET slice == LastXSlice(games, player_id, player_year, player_team, n)
    IN  IF slice = <<>> THEN None
        ELSE calculate_averages_for_games(slice, player_id, player_year, player_team, NameOfFirst(slice))

\* the filter with the end of the range left out
DateRangeSliceHalfOpen(games, player_id, player_year, player_team, start, end) ==
    SelectSeq(games,
        LAMBDA game :
            /\ MatchesPlayer(game, player_id, player_year, player_team)
            /\ StrLe(start, game.numdate)
            /\ StrLt(game.numdate, end))

\* lines 436-446: filtered_games
DateRangeSlice(games, player_id, player_year, player_team, start, end) ==
    SelectSeq(games,
        LAMBDA game :
            /\ MatchesPlayer(game, player_id, player_year, player_team)
            /\ StrLe(start, game.numdate)
            /\ StrLe(game.numdate, end))

calculate_player_averages_by_date_range(games, player_id, player_year, player_team, start, end) ==
    LET slice == DateRangeSlice(games, player_id, player_year, player_team, start, end)
    IN  IF slice = <<>> THEN None
        ELSE calculate_averages_for_games(slice, player_id, player_year, player_team, NameOfFirst(slice))

(***************************************************************************)
(* calculate_and_insert_season_averages.  A key of the HashMap             *)
(* player_season_games is <<pid, year, tt>>.                               *)
(***************************************************************************)
\* the key with the test of line 239 left out: an empty team forms a group
GroupKeyAnyTeam(game) ==
    IF game.pid # None /\ game.year # None
    THEN Some(<<game.pid[1], game.year[1], game.tt>>)
    ELSE None

\* lines 236-248: the key a record is pushed under, None for a record that
\* is skipped
GroupKey(game) ==
    IF game.pid # None /\ game.year # None /\ game.tt # ""
    THEN Some(<<game.pid[1], game.year[1], game.tt>>)
    ELSE None

\* groups that take every keyed record of their player, whatever its year
\* and team
GroupGamesOfPlayer(games) ==
    LET kept == {i \in DOMAIN games : GroupKey(games[i]) # None}
    IN  [key \in {GroupKey(games[i])[1] : i \in kept} |->
            SelectSeq(games,
                LAMBDA game : IF GroupKey(game) = None THEN FALSE
                              ELSE GroupKey(game)[1][1] = key[1])]

\* lines 234-249: player_season_games, every group in the order of the input
GroupGames(games) ==
    LET kept == {i \in DOMAIN games : GroupKey(games[i]) # None}
    IN  [key \in {GroupKey(games[i])[1] : i \in kept} |->
            SelectSeq(games, LAMBDA game : GroupKey(game) = Some(key))]

\* the orders in which a HashMap can yield the keys S
Orderings(S) ==
    {f \in [1..Cardinality(S) -> S] :
        \A i, j \in 1..Cardinality(S) : i # j => f[i] # f[j]}

\* lines 251-269: season_averages, for the groups visited in the order `order`;
\* a group for which calculate_averages_for_games returns None adds nothing
RECURSIVE SeasonAveragesOf(_, _)
SeasonAveragesOf(groups, order) ==
    IF order = <<>> THEN <<>>
    ELSE LET key == order[Len(order)]
             games_for_player_season == groups[key]
             player_name == NameOfFirst(games_for_player_season)
         IN  SeasonAveragesOf(groups, SubSeq(order, 1, Len(order) - 1))
                 \o calculate_averages_for_games(games_for_player_season, key[1], key[2], key[3], player_name)

(***************************************************************************)
(* calculate_and_insert_season_percentiles.                                *)
(***************************************************************************)
\* the table below with the column of pct_pts taken from the assists
PercentileColumnsCrossed ==
    <<
     <<"pct_min_per", "avg_min_per", "avg_min_per">>,
     <<"pct_o_rtg", "avg_o_rtg", "avg_o_rtg">>,
     <<"pct_usg", "avg_usg", "avg_usg">>,
     <<"pct_e_fg", "avg_e_fg", "avg_e_fg">>,
     <<"pct_ts_per", "avg_ts_per", "avg_ts_per">>,
     <<"pct_orb_per", "avg_orb_per", "avg_orb_per">>,
     <<"pct_drb_per", "avg_drb_per", "avg_drb_per">>,
     <<"pct_ast_per", "avg_ast_per", "avg_ast_per">>,
     <<"pct_to_per", "avg_to_per", "avg_to_per">>,
     <<"pct_dunks_made", "avg_dunks_made", "avg_dunks_made">>,
     <<"pct_dunks_att", "avg_dunks_att", "avg_dunks_att">>,
     <<"pct_rim_made", "avg_rim_made", "avg_rim_made">>,
     <<"pct_rim_att", "avg_rim_att", "avg_rim_att">>,
     <<"pct_mid_made", "avg_mid_made", "avg_mid_made">>,
     <<"pct_mid_att", "avg_mid_att", "avg_mid_att">>,
     <<"pct_two_pm", "avg_two_pm", "avg_two_pm">>,
     <<"pct_two_pa", "avg_two_pa", "avg_two_pa">>,
     <<"pct_tpm", "avg_tpm", "avg_tpm">>,
     <<"pct_tpa", "avg_tpa", "avg_tpa">>,
     <<"pct_ftm", "avg_ftm", "avg_ftm">>,
     <<"pct_fta", "avg_fta", "avg_fta">>,
     <<"pct_bpm_rd", "avg_bpm_rd", "avg_bpm_rd">>,
     <<"pct_obpm", "avg_obpm", "avg_obpm">>,
     <<"pct_dbpm", "avg_dbpm", "avg_dbpm">>,
     <<"pct_bpm_net", "avg_bpm_net", "avg_bpm_net">>,
     <<"pct_pts", "avg_pts", "avg_ast">>,
     <<"pct_orb", "avg_orb", "avg_orb">>,
     <<"pct_drb", "avg_drb", "avg_drb">>,
     <<"pct_ast", "avg_ast", "avg_ast">>,
     <<"pct_tov", "avg_tov", "avg_tov">>,
     <<"pct_stl", "avg_stl", "avg_stl">>,
     <<"pct_blk", "avg_blk", "avg_blk">>,
     <<"pct_stl_per", "avg_stl_per", "avg_stl_per">>,
     <<"pct_blk_per", "avg_blk_per", "avg_blk_per">>,
     <<"pct_pf", "avg_pf", "avg_pf">>,
     <<"pct_possessions", "avg_possessions", "avg_possessions">>,
     <<"pct_bpm", "avg_bpm", "avg_bpm">>,
     <<"pct_sbpm", "avg_sbpm", "avg_sbpm">>,
     <<"pct_inches", "avg_inches", "avg_inches">>,
     <<"pct_opstyle", "avg_opstyle", "avg_opstyle">>,
     <<"pct_quality", "avg_quality", "avg_quality">>,
     <<"pct_win1", "avg_win1", "avg_win1">>,
     <<"pct_win2", "avg_win2", "avg_win2">>
    >>

\* Lines 647-691, one row for every field pct_X of PlayerSeasonPercentiles:
\* the field, the field of `avg` that is ranked, and the field of the averages
\* that lines 549-593 collect into the column it is ranked against.
PercentileColumns ==
    <<
     <<"pct_min_per", "avg_min_per", "avg_min_per">>,
     <<"pct_o_rtg", "avg_o_rtg", "avg_o_rtg">>,
     <<"pct_usg", "avg_usg", "avg_usg">>,
     <<"pct_e_fg", "avg_e_fg", "avg_e_fg">>,
     <<"pct_ts_per", "avg_ts_per", "avg_ts_per">>,
     <<"pct_orb_per", "avg_orb_per", "avg_orb_per">>,
     <<"pct_drb_per", "avg_drb_per", "avg_drb_per">>,
     <<"pct_ast_per", "avg_ast_per", "avg_ast_per">>,
     <<"pct_to_per", "avg_to_per", "avg_to_per">>,
     <<"pct_dunks_made", "avg_dunks_made", "avg_dunks_made">>,
     <<"pct_dunks_att", "avg_dunks_att", "avg_dunks_att">>,
     <<"pct_rim_made", "avg_rim_made", "avg_rim_made">>,
     <<"pct_rim_att", "avg_rim_att", "avg_rim_att">>,
     <<"pct_mid_made", "avg_mid_made", "avg_mid_made">>,
     <<"pct_mid_att", "avg_mid_att", "avg_mid_att">>,
     <<"pct_two_pm", "avg_two_pm", "avg_two_pm">>,
     <<"pct_two_pa", "avg_two_pa", "avg_two_pa">>,
     <<"pct_tpm", "avg_tpm", "avg_tpm">>,
     <<"pct_tpa", "avg_tpa", "avg_tpa">>,
     <<"pct_ftm", "avg_ftm", "avg_ftm">>,
     <<"pct_fta", "avg_fta", "avg_fta">>,
     <<"pct_bpm_rd", "avg_bpm_rd", "avg_bpm_rd">>,
     <<"pct_obpm", "avg_obpm", "avg_obpm">>,
     <<"pct_dbpm", "avg_dbpm", "avg_dbpm">>,
     <<"pct_bpm_net", "avg_bpm_net", "avg_bpm_net">>,
     <<"pct_pts", "avg_pts", "avg_pts">>,
     <<"pct_orb", "avg_orb", "avg_orb">>,
     <<"pct_drb", "avg_drb", "avg_drb">>,
     <<"pct_ast", "avg_ast", "avg_ast">>,
     <<"pct_tov", "avg_tov", "avg_tov">>,
     <<"pct_stl", "avg_stl", "avg_stl">>,
     <<"pct_blk", "avg_blk", "avg_blk">>,
     <<"pct_stl_per", "avg_stl_per", "avg_stl_per">>,
     <<"pct_blk_per", "avg_blk_per", "avg_blk_per">>,
     <<"pct_pf", "avg_pf", "avg_pf">>,
     <<"pct_possessions", "avg_possessions", "avg_possessions">>,
     <<"pct_bpm", "avg_bpm", "avg_bpm">>,
     <<"pct_sbpm", "avg_sbpm", "avg_sbpm">>,
     <<"pct_inches", "avg_inches", "avg_inches">>,
     <<"pct_opstyle", "avg_opstyle", "avg_opstyle">>,
     <<"pct_quality", "avg_quality", "avg_quality">>,
     <<"pct_win1", "avg_win1", "avg_win1">>,
     <<"pct_win2", "avg_win2", "avg_win2">>
    >>

\* `sorted` with x inserted behind every element that is not greater
RECURSIVE InsertValue(_, _)
InsertValue(sorted, x) ==
    IF sorted = <<>> THEN <<x>>
    ELSE IF RLt(x, sorted[Len(sorted)])
    THEN Append(InsertValue(SubSeq(sorted, 1, Len(sorted) - 1), x), sorted[Len(sorted)])
    ELSE Append(sorted, x)

\* sort_by(|a, b| a.partial_cmp(b).unwrap_or(Equal)): ascending and stable
RECURSIVE SortValues(_)
SortValues(values) ==
    IF values = <<>> THEN <<>>
    ELSE InsertValue(SortValues(SubSeq(values, 1, Len(values) - 1)), values[Len(values)])

\* lines 549-638: the column *_values collected from the field f, sorted
ColumnValues(population, f) ==
    SortValues([i \in DOMAIN population |-> population[i][f]])

\* the fields of PlayerSeasonPercentiles
PercentileFields ==
    {"pid", "year", "team", "player_name"}
        \cup {PercentileColumns[k][1] : k \in DOMAIN PercentileColumns}

\* lines 642-692: the record pushed for `avg`
PercentilesRecord(avg, population) ==
    [f \in PercentileFields |->
        CASE f = "pid" -> avg.pid
          [] f = "year" -> avg.year
          [] f = "team" -> avg.team
          [] f = "player_name" -> avg.player_name
          [] OTHER ->
               LET row == PercentileColumns[
                              CHOOSE k \in DOMAIN PercentileColumns :
                                  PercentileColumns[k][1] = f]
               IN  calculate_percentile(avg[row[2]], ColumnValues(population, row[3]))]

\* lines 639-693: season_percentiles
SeasonPercentilesOf(population) ==
    [i \in DOMAIN population |-> PercentilesRecord(population[i], population)]

(***************************************************************************)
(* The aggregator as a state machine: a caller assembles a slice, game by  *)
(* game, and calls calculate_averages_for_games on it once.                *)
(***************************************************************************)
InFamily(slice, family) == \A k \in DOMAIN slice : slice[k] \in family

AddGameFrom(family, max) ==
    /\ pc = "input"
    /\ Len(games_raw) < max
    /\ InFamily(games_raw, family)
    /\ \E game \in family : games_raw' = Append(games_raw, game)
    /\ UNCHANGED <<averages, pc, sorted_data, value, percentile, ppc, percentile64>>
    /\ UNCHANGED <<selVars, grpVars, rnkVars, mainVars, rolVars>>

AddGame ==
    \/ AddGameFrom(MinutesGames, MaxGames)
    \/ AddGameFrom(FieldGoalGames, MaxShotGames)
    \/ AddGameFrom(TrueShootingGames, MaxShotGames)

CalculateAverages ==
    /\ pc = "input"
    /\ averages' = calculate_averages_for_games(games_raw, 42, 2026, "DUKE", "Smith")
    /\ pc' = "done"
    /\ UNCHANGED <<games_raw, sorted_data, value, percentile, ppc, percentile64>>
    /\ UNCHANGED <<selVars, grpVars, rnkVars, mainVars, rolVars>>

Init ==
    /\ games_raw = <<>>
    /\ averages = None
    /\ pc = "input"
    /\ sorted_data = <<>>
    /\ value = F(0)
    /\ percentile = F(0)
    /\ ppc = "input"
    /\ percentile64 = Zero64
    /\ all_game_stats = <<>>
    /\ num_games = 0
    /\ start_date_num = <<>>
    /\ end_date_num = <<>>
    /\ slice_games = <<>>
    /\ selected = None
    /\ spc = "input"
    /\ player_season_games = <<>>
    /\ season_averages = <<>>
    /\ avg_inserted = <<>>
    /\ avg_result = "pending"
    /\ all_season_averages = <<>>
    /\ season_percentiles = <<>>
    /\ pct_inserted = <<>>
    /\ pct_result = "pending"
    /\ db_game_stats = <<>>
    /\ mpc = "init_db"
    /\ rpc = "idle"
    /\ team_code = None
    /\ query_year = None
    /\ start_date_str = <<>>
    /\ end_date_str = <<>>
    /\ rolling_game_stats = <<>>
    /\ player_keys = {}
    /\ rolling_averages = <<>>
    /\ rolling_with_percentiles = <<>>

Next == AddGame \/ CalculateAverages

Spec == Init /\ [][Next]_vars

(***************************************************************************)
(* The ranker as a state machine: a caller assembles a population, value   *)
(* by value, and ranks one value against it.  calculate_percentile does    *)
(* not rely on the order of the population, so the populations are         *)
(* assembled in every order, the sorted ones its callers pass included.    *)
(***************************************************************************)
PopulationValues == {5, 10, 15, 20}

\* values to rank: members, values between, below and above the population
RankedValues == {0, 5, 10, 12, 15, 20, 25}

AddValue ==
    /\ ppc = "input"
    /\ Len(sorted_data) < MaxPopulation
    /\ \E x \in PopulationValues : sorted_data' = Append(sorted_data, F(x))
    /\ UNCHANGED <<games_raw, averages, pc, value, percentile, ppc, percentile64>>
    /\ UNCHANGED <<selVars, grpVars, rnkVars, mainVars, rolVars>>

CalculatePercentile ==
    /\ ppc = "input"
    /\ \E v \in RankedValues :
          /\ value' = F(v)
          /\ percentile' = calculate_percentile(F(v), sorted_data)
    /\ ppc' = "done"
    /\ UNCHANGED <<games_raw, averages, pc, sorted_data, percentile64>>
    /\ UNCHANGED <<selVars, grpVars, rnkVars, mainVars, rolVars>>

NextPercentile == AddValue \/ CalculatePercentile

SpecPercentile == Init /\ [][NextPercentile]_vars

(***************************************************************************)
(* The ranker on the populations its callers pass: a column sorted         *)
(* ascending (lines 596-638), ties included, with the result computed as   *)
(* the exact rational and as the binary64 value.                           *)
(***************************************************************************)
\* longest sorted column
MaxSorted == 6

SortedValues == {-10, -5, 0, 5, 10, 15}

\* values to rank: members, values between, below and above the column
SortedRanked == {-15, -10, -5, -2, 0, 5, 10, 15, 20}

AddSortedValue ==
    /\ ppc = "input"
    /\ Len(sorted_data) < MaxSorted
    /\ \E x \in SortedValues :
          /\ IF sorted_data = <<>> THEN TRUE
             ELSE RLe(sorted_data[Len(sorted_data)], F(x))
          /\ sorted_data' = Append(sorted_data, F(x))
    /\ UNCHANGED <<games_raw, averages, pc, value, percentile, ppc, percentile64>>
    /\ UNCHANGED <<selVars, grpVars, rnkVars, mainVars, rolVars>>

RankInSortedColumn ==
    /\ ppc = "input"
    /\ \E v \in SortedRanked :
          /\ value' = F(v)
          /\ percentile' = calculate_percentile(F(v), sorted_data)
          /\ percentile64' = calculate_percentile64(F(v), sorted_data)
    /\ ppc' = "done"
    /\ UNCHANGED <<games_raw, averages, pc, sorted_data>>
    /\ UNCHANGED <<selVars, grpVars, rnkVars, mainVars, rolVars>>

NextSorted == AddSortedValue \/ RankInSortedColumn

SpecSorted == Init /\ [][NextSorted]_vars

(***************************************************************************)
(* The selectors as a state machine: the collection of all game records is *)
(* assembled record by record, in every order, and one selector is called  *)
(* on it for player 42 of DUKE in 2026.                                    *)
(***************************************************************************)
\* longest collection
MaxStore == 3

\* A record of the collection: GameOf with the given numdate, scale of its
\* statistics, minutes and name.
StoreGame(numdate, scale, minutes, name) ==
    [GameOf(scale, FALSE) EXCEPT !.numdate = numdate, !.min_per = Some(minutes),
                                 !.pp = name]

\* The records of player 42: numdates "10" < "2" < "20" as strings (2 < 10 < 20
\* as numbers), two records on one date with different statistics, a record
\* without a name, and a game without minutes.
PlayerGames ==
    {StoreGame(<<1, 0>>, 1, 20, "Smith"),
     StoreGame(<<2>>, 2, 20, ""),
     StoreGame(<<2>>, 8, 20, "Smyth"),
     StoreGame(<<2, 0>>, 4, 0, "Smith")}

\* records another key owns: another player, no year, another team
OtherGames ==
    {[StoreGame(<<2>>, 16, 20, "Jones") EXCEPT !.pid = Some(7)],
     [StoreGame(<<2>>, 16, 20, "Smith") EXCEPT !.year = None],
     [StoreGame(<<2>>, 16, 20, "Smith") EXCEPT !.tt = "UNC"]}

StoreGames == PlayerGames \cup OtherGames

\* the ends of a date range: the numdates and a string below all of them
RangeDates == {<<1>>, <<1, 0>>, <<2>>, <<2, 0>>}

AddRecord ==
    /\ spc = "input"
    /\ Len(all_game_stats) < MaxStore
    /\ \E game \in StoreGames : all_game_stats' = Append(all_game_stats, game)
    /\ UNCHANGED <<num_games, start_date_num, end_date_num, slice_games, selected, spc>>
    /\ UNCHANGED <<aggVars, pctVars, grpVars, rnkVars, mainVars, rolVars>>

LastXGames ==
    /\ spc = "input"
    /\ \E n \in 0..(MaxStore + 1) :
          /\ num_games' = n
          /\ slice_games' = LastXSlice(all_game_stats, 42, 2026, "DUKE", n)
          /\ selected' = calculate_last_x_games_averages(all_game_stats, 42, 2026, "DUKE", n)
    /\ spc' = "last_x"
    /\ UNCHANGED <<all_game_stats, start_date_num, end_date_num>>
    /\ UNCHANGED <<aggVars, pctVars, grpVars, rnkVars, mainVars, rolVars>>

DateRange ==
    /\ spc = "input"
    /\ \E start \in RangeDates, end \in RangeDates :
          /\ start_date_num' = start
          /\ end_date_num' = end
          /\ slice_games' = DateRangeSlice(all_game_stats, 42, 2026, "DUKE", start, end)
          /\ selected' = calculate_player_averages_by_date_range(all_game_stats, 42, 2026, "DUKE", start, end)
    /\ spc' = "range"
    /\ UNCHANGED <<all_game_stats, num_games>>
    /\ UNCHANGED <<aggVars, pctVars, grpVars, rnkVars, mainVars, rolVars>>

NextSelect == AddRecord \/ LastXGames \/ DateRange

SpecSelect == Init /\ [][NextSelect]_vars

(***************************************************************************)
(* The grouping driver as a state machine: the collection of all game      *)
(* records is assembled record by record, and                              *)
(* calculate_and_insert_season_averages runs on it once.  The HashMap      *)
(* yields its keys in an order the code does not control, and the          *)
(* database can fail at session.prepare or at any session.execute.         *)
(***************************************************************************)
\* longest collection of the grouping driver
MaxSeasonGames == 3

\* Two games of player 42 for DUKE in 2026, his games for UNC and in 2025, a
\* player who never left the bench, and records without pid, year or team.
SeasonGames ==
    {StoreGame(<<1, 0>>, 1, 20, "Smith"),
     StoreGame(<<2>>, 2, 20, "Smith"),
     [StoreGame(<<2>>, 4, 20, "Smith") EXCEPT !.tt = "UNC"],
     [StoreGame(<<2>>, 8, 20, "Smith") EXCEPT !.year = Some(2025)],
     [StoreGame(<<2>>, 16, 0, "Jones") EXCEPT !.pid = Some(7)],
     [StoreGame(<<2>>, 16, 20, "Brown") EXCEPT !.pid = None],
     [StoreGame(<<2>>, 16, 20, "Smith") EXCEPT !.year = None],
     [StoreGame(<<2>>, 16, 20, "Smith") EXCEPT !.tt = ""]}

AddSeasonRecord ==
    /\ avg_result = "pending"
    /\ Len(all_game_stats) < MaxSeasonGames
    /\ \E game \in SeasonGames : all_game_stats' = Append(all_game_stats, game)
    /\ UNCHANGED <<num_games, start_date_num, end_date_num, slice_games, selected, spc>>
    /\ UNCHANGED <<aggVars, pctVars, grpVars, rnkVars, mainVars, rolVars>>

\* the failed insert counted among the records inserted
InsertedThroughFailure(computed, k) == SubSeq(computed, 1, k)

\* the records a loop of session.execute leaves behind when its k-th insert fails
InsertedBeforeFailure(computed, k) == SubSeq(computed, 1, k - 1)

\* calculate_and_insert_season_averages(session, games)
SeasonAveragesCall(games) ==
    LET groups == GroupGames(games)
    IN  \E order \in Orderings(DOMAIN groups) :
           LET computed == SeasonAveragesOf(groups, order)
           IN  /\ player_season_games' = groups
               /\ season_averages' = computed
               /\ \/ \* session.prepare fails
                     /\ avg_inserted' = <<>>
                     /\ avg_result' = "Err"
                  \/ \* the k-th session.execute fails
                     \E k \in 1..Len(computed) :
                         /\ avg_inserted' = InsertedBeforeFailure(computed, k)
                         /\ avg_result' = "Err"
                  \/ \* every insert succeeds
                     /\ avg_inserted' = computed
                     /\ avg_result' = "Ok"

CalculateAndInsertSeasonAverages ==
    /\ avg_result = "pending"
    /\ SeasonAveragesCall(all_game_stats)
    /\ UNCHANGED <<aggVars, pctVars, selVars, rnkVars, mainVars, rolVars>>

NextGrouping == AddSeasonRecord \/ CalculateAndInsertSeasonAverages

SpecGrouping == Init /\ [][NextGrouping]_vars

(***************************************************************************)
(* Batch ranking as a state machine: a population of season averages is    *)
(* assembled record by record, and calculate_and_insert_season_percentiles *)
(* runs on it once.  The database can fail at session.prepare or at any    *)
(* session.execute.                                                        *)
(***************************************************************************)
\* largest population of season averages
MaxAverages == 3

\* the season averages of a player with the given games
AveragesOfPlayer(games, pid, year, team, name) ==
    calculate_averages_for_games(games, pid, year, team, name)[1]

\* Four records the aggregator produces: two players equal in every
\* statistic, a player who leads every column but the points, and a season
\* of two games whose means lie between the others.
SeasonAveragesFamily ==
    {AveragesOfPlayer(<<StoreGame(<<2>>, 1, 20, "Smith")>>, 42, 2026, "DUKE", "Smith"),
     AveragesOfPlayer(<<StoreGame(<<2>>, 1, 20, "Brown")>>, 9, 2026, "UNC", "Brown"),
     AveragesOfPlayer(<<[StoreGame(<<2>>, 3, 20, "Jones") EXCEPT !.pts = Some(1)]>>,
                      7, 2026, "DUKE", "Jones"),
     AveragesOfPlayer(<<StoreGame(<<1, 0>>, 1, 20, "Smith"),
                        StoreGame(<<2>>, 2, 20, "Smith")>>, 42, 2025, "DUKE", "Smith")}

AddAverages ==
    /\ pct_result = "pending"
    /\ Len(all_season_averages) < MaxAverages
    /\ \E avg \in SeasonAveragesFamily :
          all_season_averages' = Append(all_season_averages, avg)
    /\ UNCHANGED <<season_percentiles, pct_inserted, pct_result>>
    /\ UNCHANGED <<aggVars, pctVars, selVars, grpVars, mainVars, rolVars>>

\* calculate_and_insert_season_percentiles(session, population)
SeasonPercentilesCall(population) ==
    IF population = <<>>
    THEN \* lines 498-501
         /\ season_percentiles' = <<>>
         /\ pct_inserted' = <<>>
         /\ pct_result' = "Ok"
    ELSE LET computed == SeasonPercentilesOf(population)
         IN  /\ season_percentiles' = computed
             /\ \/ \* session.prepare fails
                   /\ pct_inserted' = <<>>
                   /\ pct_result' = "Err"
                \/ \* the k-th session.execute fails
                   \E k \in 1..Len(computed) :
                       /\ pct_inserted' = InsertedBeforeFailure(computed, k)
                       /\ pct_result' = "Err"
                \/ \* every insert succeeds
                   /\ pct_inserted' = computed
                   /\ pct_result' = "Ok"

CalculateAndInsertSeasonPercentiles ==
    /\ pct_result = "pending"
    /\ SeasonPercentilesCall(all_season_averages)
    /\ UNCHANGED all_season_averages
    /\ UNCHANGED <<aggVars, pctVars, selVars, grpVars, mainVars, rolVars>>

NextRanking == AddAverages \/ CalculateAndInsertSeasonPercentiles

SpecRanking == Init /\ [][NextRanking]_vars

(***************************************************************************)
(* The service as a state machine.  main sets the database up, fetches the *)
(* game records, computes and inserts the season averages, reads them      *)
(* back, computes and inserts the season percentiles and starts the HTTP   *)
(* server; expect and the ? operator end the process at the first failure. *)
(* SKIP_DATA_LOADING is true, so main never loads data from the network.   *)
(* Once the server runs, it answers a request to                           *)
(* /api/player-rolling-averages.                                           *)
(***************************************************************************)
\* most rows of stats.game_stats
MaxServiceGames == 2

\* Rows of stats.game_stats: player 42 of DUKE under two spellings of his
\* name, his team-mate 7 with a game on the bench, and his game for UNC.
ServiceGames ==
    {StoreGame(<<1, 0>>, 1, 20, "Smith"),
     StoreGame(<<2>>, 2, 20, "Smyth"),
     [StoreGame(<<2>>, 4, 20, "Jones") EXCEPT !.pid = Some(7)],
     [StoreGame(<<2, 0>>, 8, 0, "Jones") EXCEPT !.pid = Some(7)],
     [StoreGame(<<2>>, 16, 20, "Smith") EXCEPT !.tt = "UNC"]}

\* a row that stats.game_stats holds before the process starts
StoreGameRow ==
    /\ mpc = "init_db"
    /\ Len(db_game_stats) < MaxServiceGames
    /\ \E game \in ServiceGames : db_game_stats' = Append(db_game_stats, game)
    /\ UNCHANGED mpc
    /\ UNCHANGED <<aggVars, pctVars, selVars, grpVars, rnkVars, rolVars>>

\* the ? operator and expect: main goes on after Ok and ends on Err
ContinueIgnoringErr(result, next) == next

ContinueOnOk(result, next) == IF result = "Ok" THEN next ELSE "ended"

\* init_db().await.expect("DB setup failed")
InitDb ==
    /\ mpc = "init_db"
    /\ \E result \in {"Ok", "Err"} : mpc' = ContinueOnOk(result, "connect_to_scylla")
    /\ UNCHANGED db_game_stats
    /\ UNCHANGED <<aggVars, pctVars, selVars, grpVars, rnkVars, rolVars>>

\* connect_to_scylla().await, which panics when it fails
ConnectToScylla ==
    /\ mpc = "connect_to_scylla"
    /\ \E result \in {"Ok", "Err"} : mpc' = ContinueOnOk(result, "get_all_game_stats")
    /\ UNCHANGED db_game_stats
    /\ UNCHANGED <<aggVars, pctVars, selVars, grpVars, rnkVars, rolVars>>

\* get_all_game_stats_from_db(&db).await?
GetAllGameStats ==
    /\ mpc = "get_all_game_stats"
    /\ \/ /\ all_game_stats' = db_game_stats
          /\ mpc' = ContinueOnOk("Ok", "season_averages")
       \/ /\ UNCHANGED all_game_stats
          /\ mpc' = ContinueOnOk("Err", "season_averages")
    /\ UNCHANGED <<num_games, start_date_num, end_date_num, slice_games, selected, spc>>
    /\ UNCHANGED db_game_stats
    /\ UNCHANGED <<aggVars, pctVars, grpVars, rnkVars, rolVars>>

\* calculate_and_insert_season_averages(&db, &game_stats).await?
MainSeasonAverages ==
    /\ mpc = "season_averages"
    /\ SeasonAveragesCall(all_game_stats)
    /\ mpc' = ContinueOnOk(avg_result', "get_all_season_averages")
    /\ UNCHANGED db_game_stats
    /\ UNCHANGED <<aggVars, pctVars, selVars, rnkVars, rolVars>>

\* get_all_player_season_averages_from_db(&db).await?: the rows of
\* stats.player_season_avg_stats, in an order the scan chooses
GetAllSeasonAverages ==
    /\ mpc = "get_all_season_averages"
    /\ \/ /\ \E order \in Orderings(DOMAIN avg_inserted) :
                all_season_averages' = [i \in DOMAIN order |-> avg_inserted[order[i]]]
          /\ mpc' = ContinueOnOk("Ok", "season_percentiles")
       \/ /\ UNCHANGED all_season_averages
          /\ mpc' = ContinueOnOk("Err", "season_percentiles")
    /\ UNCHANGED <<season_percentiles, pct_inserted, pct_result>>
    /\ UNCHANGED db_game_stats
    /\ UNCHANGED <<aggVars, pctVars, selVars, grpVars, rolVars>>

\* calculate_and_insert_season_percentiles(&db, &all_season_averages).await?
MainSeasonPercentiles ==
    /\ mpc = "season_percentiles"
    /\ SeasonPercentilesCall(all_season_averages)
    /\ mpc' = ContinueOnOk(pct_result', "bind")
    /\ UNCHANGED all_season_averages
    /\ UNCHANGED db_game_stats
    /\ UNCHANGED <<aggVars, pctVars, selVars, grpVars, rolVars>>

\* HttpServer::new(..).bind(("0.0.0.0", 8000))?.run(): the server listens
BindAndRun ==
    /\ mpc = "bind"
    /\ \E result \in {"Ok", "Err"} : mpc' = ContinueOnOk(result, "serving")
    /\ UNCHANGED db_game_stats
    /\ UNCHANGED <<aggVars, pctVars, selVars, grpVars, rnkVars, rolVars>>

Main ==
    \/ InitDb
    \/ ConnectToScylla
    \/ GetAllGameStats
    \/ MainSeasonAverages
    \/ GetAllSeasonAverages
    \/ MainSeasonPercentiles
    \/ BindAndRun

\* The query of a request: ?team=, ?year= (None when it is missing or not an
\* i32) and the window [now - last_n_days, now] as two strings %Y%m%d.
QueryTeams == {None, Some("DUKE"), Some("UNC")}

QueryYears == {None, Some(2026)}

RollingWindows == {<< <<1>>, <<2, 0>> >>, << <<2>>, <<2>> >>, << <<2, 0>>, <<1>> >>}

\* lines 282-290: the HashSet player_keys of (pid, pp)
PlayerKeys(games, year, team) ==
    {<<games[i].pid[1], games[i].pp>> :
        i \in {j \in DOMAIN games :
                  /\ games[j].pid # None
                  /\ games[j].year = Some(year)
                  /\ games[j].tt = team}}

\* lines 242-290: the query is read, the window is computed, the game records
\* are fetched and the player keys are collected
RollingRequest ==
    /\ mpc = "serving"
    /\ rpc = "idle"
    /\ \E team \in QueryTeams, year \in QueryYears, window \in RollingWindows :
          /\ team_code' = team
          /\ query_year' = year
          /\ IF team = None \/ year = None
             THEN /\ rpc' = "BadRequest"
                  /\ UNCHANGED <<start_date_str, end_date_str, rolling_game_stats, player_keys>>
             ELSE /\ start_date_str' = window[1]
                  /\ end_date_str' = window[2]
                  /\ \/ \* get_all_game_stats_from_db fails
                        /\ rpc' = "InternalServerError"
                        /\ UNCHANGED <<rolling_game_stats, player_keys>>
                     \/ /\ rolling_game_stats' = db_game_stats
                        /\ player_keys' = PlayerKeys(db_game_stats, year[1], team[1])
                        /\ rpc' = "loop"
    /\ UNCHANGED <<rolling_averages, rolling_with_percentiles>>
    /\ UNCHANGED <<aggVars, pctVars, selVars, grpVars, rnkVars, mainVars>>

\* what lines 308-319 leave when stats.player_stats gives no row
NoPlayerStats ==
    [conf |-> None, player_type |-> None, yr |-> None, ht |-> None,
     porpag |-> None, dporpag |-> None, drtg |-> None, adjoe |-> None]

\* The rows of stats.player_stats: one for each player of DUKE in 2026, the
\* second with columns that are null.
PlayerStatsRows(pid, year, team) ==
    IF year # 2026 \/ team # "DUKE" THEN {}
    ELSE IF pid = 42
    THEN {[conf |-> Some("ACC"), player_type |-> Some("Wing G"), yr |-> Some("Jr"),
           ht |-> Some("6-5"), porpag |-> Some(F(3)), dporpag |-> Some(F(2)),
           drtg |-> Some(F(95)), adjoe |-> Some(F(110))]}
    ELSE IF pid = 7
    THEN {[conf |-> Some("ACC"), player_type |-> None, yr |-> Some("Fr"),
           ht |-> None, porpag |-> Some(F(1)), dporpag |-> Some(F(2)),
           drtg |-> None, adjoe |-> Some(F(105))]}
    ELSE {}

\* lines 322-355: the season-long constants of a player; a failed prepare or
\* execute and an empty result leave them None
SeasonLongConstants(pid, year, team) ==
    {NoPlayerStats} \cup PlayerStatsRows(pid, year, team)

\* lines 304-319: PlayerRollingAverages
RollingAverage(avg, constants) ==
    [averages |-> avg, conf |-> constants.conf, player_type |-> constants.player_type,
     yr |-> constants.yr, ht |-> constants.ht, porpag |-> constants.porpag,
     dporpag |-> constants.dporpag, drtg |-> constants.drtg, adjoe |-> constants.adjoe]

\* lines 295-364: one turn of the loop over player_keys, for the key the
\* HashSet yields next
RollingAverageOfPlayer ==
    /\ rpc = "loop"
    /\ \E key \in player_keys :
          LET result == calculate_player_averages_by_date_range(
                            rolling_game_stats, key[1], query_year[1], team_code[1],
                            start_date_str, end_date_str)
          IN  /\ player_keys' = player_keys \ {key}
              /\ IF result = None
                 THEN UNCHANGED rolling_averages
                 ELSE \E constants \in SeasonLongConstants(key[1], query_year[1], team_code[1]) :
                         rolling_averages' =
                             Append(rolling_averages, RollingAverage(result[1], constants))
    /\ UNCHANGED <<rpc, team_code, query_year, start_date_str, end_date_str>>
    /\ UNCHANGED <<rolling_game_stats, rolling_with_percentiles>>
    /\ UNCHANGED <<aggVars, pctVars, selVars, grpVars, rnkVars, mainVars>>

\* the table with pct_min_per ranked against the column of points
RollingColumnsCrossed ==
    <<
     <<"pct_min_per", "avg_min_per", "avg_pts">>,
     <<"pct_o_rtg", "avg_o_rtg", "avg_o_rtg">>,
     <<"pct_usg", "avg_usg", "avg_usg">>,
     <<"pct_e_fg", "avg_e_fg", "avg_e_fg">>,
     <<"pct_ts_per", "avg_ts_per", "avg_ts_per">>,
     <<"pct_orb_per", "avg_orb_per", "avg_orb_per">>,
     <<"pct_drb_per", "avg_drb_per", "avg_drb_per">>,
     <<"pct_ast_per", "avg_ast_per", "avg_ast_per">>,
     <<"pct_to_per", "avg_to_per", "avg_to_per">>,
     <<"pct_pts", "avg_pts", "avg_pts">>,
     <<"pct_orb", "avg_orb", "avg_orb">>,
     <<"pct_drb", "avg_drb", "avg_drb">>,
     <<"pct_ast", "avg_ast", "avg_ast">>,
     <<"pct_stl", "avg_stl", "avg_stl">>,
     <<"pct_blk", "avg_blk", "avg_blk">>,
     <<"pct_stl_per", "avg_stl_per", "avg_stl_per">>,
     <<"pct_blk_per", "avg_blk_per", "avg_blk_per">>,
     <<"pct_bpm", "avg_bpm", "avg_bpm">>,
     <<"pct_obpm", "avg_obpm", "avg_obpm">>,
     <<"pct_dbpm", "avg_dbpm", "avg_dbpm">>,
     <<"pct_dunks_made", "avg_dunks_made", "avg_dunks_made">>,
     <<"pct_dunks_att", "avg_dunks_att", "avg_dunks_att">>,
     <<"pct_rim_made", "avg_rim_made", "avg_rim_made">>,
     <<"pct_rim_att", "avg_rim_att", "avg_rim_att">>,
     <<"pct_mid_made", "avg_mid_made", "avg_mid_made">>,
     <<"pct_mid_att", "avg_mid_att", "avg_mid_att">>,
     <<"pct_two_pm", "avg_two_pm", "avg_two_pm">>,
     <<"pct_two_pa", "avg_two_pa", "avg_two_pa">>,
     <<"pct_tpm", "avg_tpm", "avg_tpm">>,
     <<"pct_tpa", "avg_tpa", "avg_tpa">>,
     <<"pct_ftm", "avg_ftm", "avg_ftm">>,
     <<"pct_fta", "avg_fta", "avg_fta">>,
     <<"pct_tov", "avg_tov", "avg_tov">>,
     <<"pct_pf", "avg_pf", "avg_pf">>
    >>

\* Lines 455-488, one row for every field pct_X that is always present: the
\* field, the field of rolling_avg.averages that is ranked, and the field
\* that lines 371-404 collect into the column it is ranked against.
RollingColumns ==
    <<
     <<"pct_min_per", "avg_min_per", "avg_min_per">>,
     <<"pct_o_rtg", "avg_o_rtg", "avg_o_rtg">>,
     <<"pct_usg", "avg_usg", "avg_usg">>,
     <<"pct_e_fg", "avg_e_fg", "avg_e_fg">>,
     <<"pct_ts_per", "avg_ts_per", "avg_ts_per">>,
     <<"pct_orb_per", "avg_orb_per", "avg_orb_per">>,
     <<"pct_drb_per", "avg_drb_per", "avg_drb_per">>,
     <<"pct_ast_per", "avg_ast_per", "avg_ast_per">>,
     <<"pct_to_per", "avg_to_per", "avg_to_per">>,
     <<"pct_pts", "avg_pts", "avg_pts">>,
     <<"pct_orb", "avg_orb", "avg_orb">>,
     <<"pct_drb", "avg_drb", "avg_drb">>,
     <<"pct_ast", "avg_ast", "avg_ast">>,
     <<"pct_stl", "avg_stl", "avg_stl">>,
     <<"pct_blk", "avg_blk", "avg_blk">>,
     <<"pct_stl_per", "avg_stl_per", "avg_stl_per">>,
     <<"pct_blk_per", "avg_blk_per", "avg_blk_per">>,
     <<"pct_bpm", "avg_bpm", "avg_bpm">>,
     <<"pct_obpm", "avg_obpm", "avg_obpm">>,
     <<"pct_dbpm", "avg_dbpm", "avg_dbpm">>,
     <<"pct_dunks_made", "avg_dunks_made", "avg_dunks_made">>,
     <<"pct_dunks_att", "avg_dunks_att", "avg_dunks_att">>,
     <<"pct_rim_made", "avg_rim_made", "avg_rim_made">>,
     <<"pct_rim_att", "avg_rim_att", "avg_rim_att">>,
     <<"pct_mid_made", "avg_mid_made", "avg_mid_made">>,
     <<"pct_mid_att", "avg_mid_att", "avg_mid_att">>,
     <<"pct_two_pm", "avg_two_pm", "avg_two_pm">>,
     <<"pct_two_pa", "avg_two_pa", "avg_two_pa">>,
     <<"pct_tpm", "avg_tpm", "avg_tpm">>,
     <<"pct_tpa", "avg_tpa", "avg_tpa">>,
     <<"pct_ftm", "avg_ftm", "avg_ftm">>,
     <<"pct_fta", "avg_fta", "avg_fta">>,
     <<"pct_tov", "avg_tov", "avg_tov">>,
     <<"pct_pf", "avg_pf", "avg_pf">>
    >>

\* lines 490-493 and 407-410: the same for the season-long constants
SeasonLongColumns ==
    <<
     <<"pct_porpag", "porpag", "porpag">>,
     <<"pct_dporpag", "dporpag", "dporpag">>,
     <<"pct_drtg", "drtg", "drtg">>,
     <<"pct_adjoe", "adjoe", "adjoe">>
    >>

\* the row of a table for the field f
RowOf(table, f) == table[CHOOSE k \in DOMAIN table : table[k][1] = f]

FieldsOf(table) == {table[k][1] : k \in DOMAIN table}

\* lines 371-404 and 413-446: the column of an average, sorted
RollingColumn(rolling, f) ==
    SortValues([i \in DOMAIN rolling |-> rolling[i].averages[f]])

\* lines 407-410 and 447-450: the column of a season-long constant, sorted
RECURSIVE FilterMap(_, _)
FilterMap(rolling, f) ==
    IF rolling = <<>> THEN <<>>
    ELSE FilterMap(SubSeq(rolling, 1, Len(rolling) - 1), f) \o rolling[Len(rolling)][f]

SeasonLongColumn(rolling, f) == SortValues(FilterMap(rolling, f))

\* lines 454-494: PlayerRollingAveragesWithPercentiles
WithPercentiles(rolling_avg, rolling) ==
    [f \in FieldsOf(RollingColumns) \cup FieldsOf(SeasonLongColumns) \cup {"rolling_avg"} |->
        IF f = "rolling_avg" THEN rolling_avg
        ELSE IF f \in FieldsOf(RollingColumns)
        THEN LET row == RowOf(RollingColumns, f)
             IN  Some(calculate_percentile(rolling_avg.averages[row[2]],
                                           RollingColumn(rolling, row[3])))
        ELSE LET row == RowOf(SeasonLongColumns, f)
             IN  IF rolling_avg[row[2]] = None THEN None
                 ELSE Some(calculate_percentile(rolling_avg[row[2]][1],
                                                SeasonLongColumn(rolling, row[3])))]

\* the loop over player_keys has visited every key
LoopLeftEarly(keys) == TRUE

LoopFinished(keys) == keys = {}

\* lines 367-496: the percentiles of the rolling averages and the response
RollingPercentiles ==
    /\ rpc = "loop"
    /\ LoopFinished(player_keys)
    /\ rolling_with_percentiles' =
           [i \in DOMAIN rolling_averages |->
               WithPercentiles(rolling_averages[i], rolling_averages)]
    /\ rpc' = "Ok"
    /\ UNCHANGED <<team_code, query_year, start_date_str, end_date_str>>
    /\ UNCHANGED <<rolling_game_stats, player_keys, rolling_averages>>
    /\ UNCHANGED <<aggVars, pctVars, selVars, grpVars, rnkVars, mainVars>>

get_player_rolling_averages_endpoint ==
    \/ RollingRequest
    \/ RollingAverageOfPlayer
    \/ RollingPercentiles

NextService == StoreGameRow \/ Main \/ get_player_rolling_averages_endpoint

SpecService == Init /\ [][NextService]_vars

(***************************************************************************)
(* Claims about the aggregator.  Their sums are taken over index sets of   *)
(* the input slice, independently of the accumulators of the code.         *)
(***************************************************************************)
\* the positions of the slice whose min_per is present and > 0
Qualifying(slice) ==
    {k \in DOMAIN slice : slice[k].min_per # None /\ slice[k].min_per[1] > 0}

\* the sum of field f over the positions S of the slice, an absent value as 0
RECURSIVE SumOver(_, _, _)
SumOver(S, slice, f) ==
    IF S = {} THEN 0
    ELSE LET k == CHOOSE x \in S : TRUE
         IN  (IF slice[k][f] = None THEN 0 ELSE slice[k][f][1])
             + SumOver(S \ {k}, slice, f)

MinutesOf(slice) == [k \in DOMAIN slice |-> slice[k].min_per]

Returned == pc = "done" /\ averages # None

\* C1: whenever a record is returned, games_played is the number of input
\* records whose min_per is present and > 0, each record counted once.
C1_GamesPlayedCountsQualifying ==
    Returned => averages[1].games_played = Cardinality(Qualifying(games_raw))

\* minutes [20, 0, 30] give games_played = 2
C1_Witness ==
    /\ Returned
    /\ MinutesOf(games_raw) = <<Some(20), Some(0), Some(30)>>
    /\ averages[1].games_played = 2

\* the fields of PlayerSeasonAverages that hold averages
AverageFields == DOMAIN AveragesRecord(<<>>, 0, 0, "", "")
                     \ {"pid", "year", "team", "player_name", "games_played"}

\* C2: None is returned exactly when no record of the slice has min_per present
\* and > 0; a returned record has games_played > 0 and no average in it is the
\* result of a division by zero.
C2_NoDataExactlyWhenNoQualifyingGame ==
    pc = "done" =>
        /\ (averages = None) <=> (Qualifying(games_raw) = {})
        /\ averages # None =>
              /\ averages[1].games_played > 0
              /\ \A f \in AverageFields : averages[1][f] # NaN

\* a slice of an absent, a zero and a negative min_per yields None
C2_Witness ==
    /\ pc = "done"
    /\ {MinutesOf(games_raw)[k] : k \in DOMAIN games_raw}
           = {None, Some(0), Some(-5)}
    /\ averages = None

\* (S2m + S3m + 0.5 * S3m) / (S2a + S3a) over the qualifying games
EFgOfSums(slice) ==
    LET Q == Qualifying(slice)
    IN  Rat(2 * (SumOver(Q, slice, "two_pm") + SumOver(Q, slice, "tpm"))
              + SumOver(Q, slice, "tpm"),
            2 * (SumOver(Q, slice, "two_pa") + SumOver(Q, slice, "tpa")))

FgaOfSums(slice) ==
    LET Q == Qualifying(slice)
    IN  SumOver(Q, slice, "two_pa") + SumOver(Q, slice, "tpa")

\* C3 as stated: avg_e_fg is the quotient of the sums, and 0 when S2a + S3a
\* is zero.
C3_AsStated ==
    Returned =>
        averages[1].avg_e_fg =
            IF FgaOfSums(games_raw) = 0 THEN F(0) ELSE EFgOfSums(games_raw)

\* C3: avg_e_fg = (S2m + S3m + 0.5 * S3m) / (S2a + S3a) when S2a + S3a > 0,
\* and avg_e_fg = 0 when S2a + S3a is zero or negative.
C3_EffectiveFieldGoalOfSums ==
    Returned =>
        averages[1].avg_e_fg =
            IF FgaOfSums(games_raw) <= 0 THEN F(0) ELSE EFgOfSums(games_raw)

\* two qualifying games with three-pointers made: (1 + 2 + 2 + 1) / (2 + 2 + 4 + 2)
C3_Witness ==
    /\ Returned
    /\ Cardinality(Qualifying(games_raw)) = 2
    /\ SumOver(Qualifying(games_raw), games_raw, "tpm") = 2
    /\ SumOver(Qualifying(games_raw), games_raw, "two_pm") = 3
    /\ FgaOfSums(games_raw) = 10
    /\ averages[1].avg_e_fg = <<3, 5>>

\* 25 * (S2a + S3a + 0.44 * Sfta)
TsWeightOfSums(slice) ==
    LET Q == Qualifying(slice)
    IN  25 * (SumOver(Q, slice, "two_pa") + SumOver(Q, slice, "tpa"))
          + 11 * SumOver(Q, slice, "fta")

\* Spts / (2 * (S2a + S3a + 0.44 * Sfta)) over the qualifying games
TsOfSums(slice) ==
    Rat(25 * SumOver(Qualifying(slice), slice, "pts"), 2 * TsWeightOfSums(slice))

\* C4 as stated: avg_ts_per is the quotient of the sums, and 0 when the
\* denominator is zero.
C4_AsStated ==
    Returned =>
        averages[1].avg_ts_per =
            IF TsWeightOfSums(games_raw) = 0 THEN F(0) ELSE TsOfSums(games_raw)

\* C4: avg_ts_per = Spts / (2 * (S2a + S3a + 0.44 * Sfta)) when that
\* denominator is positive, and 0 when it is zero or negative.
C4_TrueShootingOfSums ==
    Returned =>
        averages[1].avg_ts_per =
            IF TsWeightOfSums(games_raw) <= 0 THEN F(0) ELSE TsOfSums(games_raw)

\* two qualifying games: 14 points on 4 field-goal and 5 free-throw attempts,
\* 14 / (2 * (4 + 0.44 * 5)) = 35/31
C4_Witness ==
    /\ Returned
    /\ Cardinality(Qualifying(games_raw)) = 2
    /\ SumOver(Qualifying(games_raw), games_raw, "pts") = 14
    /\ FgaOfSums(games_raw) = 4
    /\ SumOver(Qualifying(games_raw), games_raw, "fta") = 5
    /\ averages[1].avg_ts_per = <<35, 31>>

\* values a feed may put in the per-game fields e_fg and ts_per of one game
PercentageChoices == {<<None, None>>, <<Some(0), Some(0)>>, <<Some(90), Some(95)>>}

\* the slices equal to the given one except for the e_fg and ts_per fields
PercentageVariants(slice) ==
    {[k \in DOMAIN slice |->
          [slice[k] EXCEPT !.e_fg = c[k][1], !.ts_per = c[k][2]]] :
        c \in [DOMAIN slice -> PercentageChoices]}

\* avg_e_fg and avg_ts_per of the result (the values the aggregator computes
\* from the games that pass its filter) are the same for every such slice
IndependentOfPerGamePercentages ==
    Returned =>
        \A other \in PercentageVariants(games_raw) :
            LET games == MinutesFilter(other)
            IN  /\ games # <<>>
                /\ EffectiveFieldGoal(games) = averages[1].avg_e_fg
                /\ TrueShooting(games) = averages[1].avg_ts_per

\* field-goal attempts of one game, and its own effective field-goal percentage
AttemptsOf(game) ==
    (IF game.two_pa = None THEN 0 ELSE game.two_pa[1])
        + (IF game.tpa = None THEN 0 ELSE game.tpa[1])

EFgOfGame(game) ==
    LET m2 == IF game.two_pm = None THEN 0 ELSE game.two_pm[1]
        m3 == IF game.tpm = None THEN 0 ELSE game.tpm[1]
    IN  Rat(2 * (m2 + m3) + m3, 2 * AttemptsOf(game))

\* two qualifying games with different, positive attempt volumes
TwoGamesOfDifferentVolume ==
    /\ Returned
    /\ Len(games_raw) = 2
    /\ Qualifying(games_raw) = {1, 2}
    /\ AttemptsOf(games_raw[1]) > 0
    /\ AttemptsOf(games_raw[2]) > 0
    /\ AttemptsOf(games_raw[1]) # AttemptsOf(games_raw[2])

MeanOfGamePercentages ==
    RMul(Half, RAdd(EFgOfGame(games_raw[1]), EFgOfGame(games_raw[2])))

\* C5 as stated: the result does not depend on the per-game percentage fields,
\* and for two games with different attempt volumes avg_e_fg differs from the
\* mean of the two games' own effective field-goal percentages.
C5_AsStated ==
    /\ IndependentOfPerGamePercentages
    /\ TwoGamesOfDifferentVolume => averages[1].avg_e_fg # MeanOfGamePercentages

\* C5: avg_e_fg and avg_ts_per do not depend on the e_fg and ts_per fields of
\* the records, and for two games with different attempt volumes and different
\* effective field-goal percentages of their own, avg_e_fg differs from the
\* mean of those two percentages.
C5_RatioOfSumsNotMeanOfRatios ==
    /\ IndependentOfPerGamePercentages
    /\ (TwoGamesOfDifferentVolume
            /\ EFgOfGame(games_raw[1]) # EFgOfGame(games_raw[2]))
        => averages[1].avg_e_fg # MeanOfGamePercentages

\* 2 of 2 and 1 of 4: the games' percentages are 1 and 1/4 (mean 5/8), the
\* result is 3/6
C5_Witness ==
    /\ TwoGamesOfDifferentVolume
    /\ EFgOfGame(games_raw[1]) = <<1, 1>>
    /\ EFgOfGame(games_raw[2]) = <<1, 4>>
    /\ MeanOfGamePercentages = <<5, 8>>
    /\ averages[1].avg_e_fg = <<1, 2>>

\* the statistics that are simple means, each with the GameStats field it averages
MeanStatistic ==
    [avg_min_per |-> "min_per", avg_o_rtg |-> "o_rtg", avg_usg |-> "usage",
     avg_orb_per |-> "orb_per", avg_drb_per |-> "drb_per",
     avg_ast_per |-> "ast_per", avg_to_per |-> "to_per",
     avg_dunks_made |-> "dunks_made", avg_dunks_att |-> "dunks_att",
     avg_rim_made |-> "rim_made", avg_rim_att |-> "rim_att",
     avg_mid_made |-> "mid_made", avg_mid_att |-> "mid_att",
     avg_two_pm |-> "two_pm", avg_two_pa |-> "two_pa", avg_tpm |-> "tpm",
     avg_tpa |-> "tpa", avg_ftm |-> "ftm", avg_fta |-> "fta",
     avg_bpm_rd |-> "bpm_rd", avg_obpm |-> "obpm", avg_dbpm |-> "dbpm",
     avg_bpm_net |-> "bpm_net", avg_pts |-> "pts", avg_orb |-> "orb",
     avg_drb |-> "drb", avg_ast |-> "ast", avg_tov |-> "tov", avg_stl |-> "stl",
     avg_blk |-> "blk", avg_stl_per |-> "stl_per", avg_blk_per |-> "blk_per",
     avg_pf |-> "pf", avg_possessions |-> "possessions", avg_bpm |-> "bpm",
     avg_sbpm |-> "sbpm", avg_inches |-> "inches", avg_opstyle |-> "opstyle",
     avg_quality |-> "quality", avg_win1 |-> "win1", avg_win2 |-> "win2"]

\* C6: every statistic other than avg_e_fg and avg_ts_per is the sum of its
\* field over the qualifying games (an absent value as 0) divided by
\* games_played; the other games contribute nothing.
C6_SimpleMeans ==
    Returned =>
        /\ DOMAIN MeanStatistic = AverageFields \ {"avg_e_fg", "avg_ts_per"}
        /\ \A stat \in DOMAIN MeanStatistic :
              averages[1][stat] =
                  Rat(SumOver(Qualifying(games_raw), games_raw, MeanStatistic[stat]),
                      averages[1].games_played)

\* a game with every statistic present, a game with minutes and every
\* statistic absent, and a game without minutes that carries statistics:
\* pts (field 31) averages to 31 / 2
C6_Witness ==
    /\ Returned
    /\ Len(games_raw) = 3
    /\ Qualifying(games_raw) = {1, 2}
    /\ games_raw[1].pts = Some(31)
    /\ games_raw[2].pts = None
    /\ games_raw[3].pts = Some(31)
    /\ averages[1].games_played = 2
    /\ averages[1].avg_pts = <<31, 2>>
    /\ averages[1].avg_orb_per = <<23, 2>>

(***************************************************************************)
(* Claims about the ranker.                                                *)
(***************************************************************************)
Ranked == ppc = "done"

\* the positions of the population below the ranked value, and equal to it
Below == {k \in DOMAIN sorted_data : RLt(sorted_data[k], value)}

Ties == {k \in DOMAIN sorted_data : sorted_data[k] = value}

\* C7: for a non-empty population P, the percentile of v is
\* (|{p in P : p < v}| + 0.5 * |{p in P : p = v}|) / |P| * 100.
C7_MeanRankFormula ==
    (Ranked /\ sorted_data # <<>>) =>
        percentile = Rat((2 * Cardinality(Below) + Cardinality(Ties)) * 100,
                         2 * Len(sorted_data))

\* the percentile of 10 in [5, 10, 10, 15, 20] is 40
C7_Witness ==
    /\ Ranked
    /\ sorted_data = <<F(5), F(10), F(10), F(15), F(20)>>
    /\ value = F(10)
    /\ percentile = F(40)

\* C8: for an empty population the result is 0.0, for every value.
C8_EmptyPopulationRanksZero ==
    (Ranked /\ sorted_data = <<>>) => percentile = F(0)

C8_Witness ==
    /\ Ranked
    /\ sorted_data = <<>>
    /\ value = F(12)
    /\ percentile = F(0)

\* C9: for every value and every population, empty or not, the result is a
\* number of the closed range [0, 100].
C9_PercentileInRange ==
    Ranked =>
        /\ percentile # NaN
        /\ RLe(F(0), percentile)
        /\ RLe(percentile, F(100))

\* both ends are met: a value above the whole population ranks 100, one
\* below it ranks 0
C9_Witness ==
    /\ Ranked
    /\ Len(sorted_data) = MaxPopulation
    /\ value = F(25)
    /\ percentile = F(100)
    /\ calculate_percentile(F(0), sorted_data) = F(0)

\* C10: on a fixed population, v1 <= v2 implies
\* calculate_percentile(v1, P) <= calculate_percentile(v2, P).
C10_MonotonicInValue ==
    Ranked =>
        \A v2 \in RankedValues :
            RLe(value, F(v2)) =>
                RLe(percentile, calculate_percentile(F(v2), sorted_data))

\* a strict increase between two members of one population
C10_Witness ==
    /\ Ranked
    /\ sorted_data = <<F(5), F(10), F(10), F(15), F(20)>>
    /\ value = F(10)
    /\ percentile = F(40)
    /\ calculate_percentile(F(15), sorted_data) = F(70)
    /\ calculate_percentile(F(12), sorted_data) = F(60)

(***************************************************************************)
(* Claims about the ranker on sorted columns, in exact arithmetic and in   *)
(* binary64.                                                               *)
(***************************************************************************)
Fifty64 == FromInt64(50)

Hundred64 == FromInt64(100)

\* x < q for an f64 x > 0 and a rational q > 0, decided exactly
Lt64(x, q) ==
    LET s == (MantissaBits - 1) - x.exp
        l == MulBits(x.bits, q[2], 0) \o Zeros(IF s < 0 THEN -s ELSE 0)
        r == Bin(q[1]) \o Zeros(IF s > 0 THEN s ELSE 0)
    IN  BitsLess(l, r)

\* x > q for an f64 x > 0 and a rational q > 0, decided exactly
Gt64(x, q) ==
    LET s == (MantissaBits - 1) - x.exp
        l == MulBits(x.bits, q[2], 0) \o Zeros(IF s < 0 THEN -s ELSE 0)
        r == Bin(q[1]) \o Zeros(IF s > 0 THEN s ELSE 0)
    IN  BitsLess(r, l)

\* the f64 values at most two units in the last place away from x > 0
WithinTwoUlps(x) ==
    {Pred64(Pred64(x)), Pred64(x), x, Succ64(x), Succ64(Succ64(x))}

AllEqual == sorted_data # <<>> /\ \A i \in DOMAIN sorted_data : sorted_data[i] = value

\* C11: in a non-empty population whose values are all equal, every member
\* ranks exactly 50.0, whatever the size of the population; the f64 result
\* is 50.0 as well.
C11_AllEqualRanksFifty ==
    (Ranked /\ AllEqual) => (percentile = F(50) /\ percentile64 = Fifty64)

\* the full tie, at every size up to the longest column
C11_Witness ==
    /\ Ranked
    /\ AllEqual
    /\ Len(sorted_data) > 2
    /\ percentile64 = Fifty64
    /\ \A n \in 1..MaxSorted :
          calculate_percentile64(value, [i \in 1..n |-> value]) = Fifty64

\* the population holds pairwise distinct values and `value` is one of them
DistinctWithMember ==
    /\ \A i, j \in DOMAIN sorted_data : i # j => sorted_data[i] # sorted_data[j]
    /\ \E i \in DOMAIN sorted_data : sorted_data[i] = value

\* the 0-based ascending rank of `value`: the number of members below it
RankOfValue == Cardinality({i \in DOMAIN sorted_data : RLt(sorted_data[i], value)})

\* (k + 0.5) / n x 100, exactly
RankFormula(k, n) == RMul(RDiv(RAdd(F(k), Half), F(n)), F(100))

\* (k + 0.5) / n x 100, as binary64 evaluates it
RankFormula64(k, n) == Mul64(Div64(RDiv(RAdd(F(k), Half), F(n))), 100)

IsMedianOfOdd(k, n) == n % 2 = 1 /\ 2 * k = n - 1

IsMiddleOfEven(k, n) == n % 2 = 0 /\ (2 * k = n \/ 2 * k = n - 2)

\* 50 - 50/n and 50 + 50/n
LowerMiddle(n) == Rat(50 * (n - 1), n)

UpperMiddle(n) == Rat(50 * (n + 1), n)

\* C12 as stated, of the f64 the code returns: the formula, exactly 50.0 at the
\* median of an odd population, and within 50/n of 50.0 at the middle of an
\* even one.
C12_AsStated ==
    (Ranked /\ DistinctWithMember) =>
        LET n == Len(sorted_data)
            k == RankOfValue
        IN  /\ percentile64 = RankFormula64(k, n)
            /\ IsMedianOfOdd(k, n) => percentile64 = Fifty64
            /\ IsMiddleOfEven(k, n) =>
                  /\ ~Lt64(percentile64, LowerMiddle(n))
                  /\ ~Gt64(percentile64, UpperMiddle(n))

\* C12 (amended): among n pairwise distinct values the member of 0-based
\* ascending rank k ranks (k + 0.5) / n x 100; the median of an odd population
\* ranks exactly 50.0, also in f64; the middle values of an even population
\* lie within 50/n of 50.0 in exact arithmetic, and the f64 result leaves
\* that interval by at most two units in the last place.
C12_DistinctRanks ==
    (Ranked /\ DistinctWithMember) =>
        LET n == Len(sorted_data)
            k == RankOfValue
        IN  /\ percentile = RankFormula(k, n)
            /\ percentile64 = RankFormula64(k, n)
            /\ IsMedianOfOdd(k, n) => (percentile = F(50) /\ percentile64 = Fifty64)
            /\ IsMiddleOfEven(k, n) =>
                  /\ RLe(LowerMiddle(n), percentile)
                  /\ RLe(percentile, UpperMiddle(n))
                  /\ \E x \in WithinTwoUlps(percentile64) :
                        ~Lt64(x, LowerMiddle(n)) /\ ~Gt64(x, UpperMiddle(n))

\* an upper middle value of six distinct values and, by the formula, the
\* median of five
C12_Witness ==
    /\ Ranked
    /\ DistinctWithMember
    /\ Len(sorted_data) = 6
    /\ RankOfValue = 3
    /\ percentile = Rat(175, 3)
    /\ calculate_percentile64(value, SubSeq(sorted_data, 2, 6)) = Fifty64

Neg(a) == <<-a[1], a[2]>>

\* -P: every element negated
Negated(data) == [i \in DOMAIN data |-> Neg(data[i])]

\* C13 as stated, of the f64 the code returns:
\* calculate_percentile(v, P) + calculate_percentile(-v, -P) = 100.
C13_AsStated ==
    (Ranked /\ sorted_data # <<>>) =>
        Add64(percentile64,
              calculate_percentile64(Neg(value), Negated(sorted_data))) = Hundred64

\* C13 (amended): for a non-empty population P and a value v, the rank of v
\* in P from below and the rank of -v in -P add up to 100 in exact
\* arithmetic; the sum of the two f64 results is within two units in the
\* last place of 100.0.
C13_SymmetricForTies ==
    (Ranked /\ sorted_data # <<>>) =>
        /\ RAdd(percentile,
                calculate_percentile(Neg(value), Negated(sorted_data))) = F(100)
        /\ Add64(percentile64,
                 calculate_percentile64(Neg(value), Negated(sorted_data)))
              \in WithinTwoUlps(Hundred64)

\* a value tied with two members, with members below and above it
C13_Witness ==
    /\ Ranked
    /\ Len(sorted_data) = 5
    /\ Cardinality({i \in DOMAIN sorted_data : sorted_data[i] = value}) = 2
    /\ Cardinality({i \in DOMAIN sorted_data : RLt(sorted_data[i], value)}) = 1
    /\ percentile = F(40)
    /\ calculate_percentile(Neg(value), Negated(sorted_data)) = F(60)

(***************************************************************************)
(* Claims about the selectors.  The records a selector should take are     *)
(* described by sets of positions of the collection, independently of the  *)
(* filters and of the sort of the code.                                    *)
(***************************************************************************)
\* the positions of the records of (42, 2026, DUKE)
OwnIdx ==
    {i \in DOMAIN all_game_stats :
        /\ all_game_stats[i].pid = Some(42)
        /\ all_game_stats[i].year = Some(2026)
        /\ all_game_stats[i].tt = "DUKE"}

\* the records of `games` at the positions idx, in the order of `games`
RecordsAt(games, idx) ==
    [k \in 1..Cardinality(idx) |->
        games[CHOOSE i \in idx : Cardinality({j \in idx : j < i}) = k - 1]]

\* the number of positions of s that hold x
Occurrences(s, x) == Cardinality({i \in DOMAIN s : s[i] = x})

\* s and t hold the same records the same number of times
SameRecords(s, t) ==
    /\ Len(s) = Len(t)
    /\ \A i \in DOMAIN s : Occurrences(s, s[i]) = Occurrences(t, s[i])

\* a <= b for two strings: a is a prefix of b, or a holds the lesser
\* character at the first position where they differ
LexLe(a, b) ==
    \E k \in 0..Len(a) :
        /\ k <= Len(b)
        /\ \A j \in 1..k : a[j] = b[j]
        /\ k = Len(a) \/ (k < Len(b) /\ a[k + 1] < b[k + 1])

\* the names the own records carry, and the sentinel
OwnNames == {all_game_stats[i].pp : i \in OwnIdx} \cup {"Unknown"}

\* C14: with num_games greater than or equal to the number of records of
\* (pid, year, team), calculate_last_x_games_averages takes all of them and
\* nothing else, and returns what calculate_averages_for_games returns on
\* all of them (None only when none of them has minutes).
C14_FewerThanAskedUsesAll ==
    (spc = "last_x" /\ num_games >= Cardinality(OwnIdx)) =>
        LET own == RecordsAt(all_game_stats, OwnIdx)
        IN  /\ SameRecords(slice_games, own)
            /\ \E name \in OwnNames :
                  selected = calculate_averages_for_games(own, 42, 2026, "DUKE", name)

\* four games asked for, three on record, one of them without minutes
C14_Witness ==
    /\ spc = "last_x"
    /\ Cardinality(OwnIdx) = 3
    /\ num_games = 4
    /\ Len(slice_games) = 3
    /\ selected # None
    /\ selected[1].games_played = 2

\* the bijections of 1..n
Perms(n) == {f \in [1..n -> 1..n] : \A i, j \in 1..n : i # j => f[i] # f[j]}

\* the collection in the order f
Permuted(games, f) == [i \in DOMAIN games |-> games[f[i]]]

Min(a, b) == IF a <= b THEN a ELSE b

\* the own records carry pairwise distinct numdates
DistinctDates ==
    \A i, j \in OwnIdx :
        i # j => all_game_stats[i].numdate # all_game_stats[j].numdate

\* the positions of the own records with fewer than num_games own records
\* of a greater numdate
LatestIdx ==
    {i \in OwnIdx :
        Cardinality({j \in OwnIdx :
            ~LexLe(all_game_stats[j].numdate, all_game_stats[i].numdate)}) < num_games}

\* The slice is a tail by numdate: ascending, of min(num_games, count) own
\* records, and no own record of a greater numdate than its first is left out.
SliceIsLatest ==
    /\ Len(slice_games) = Min(num_games, Cardinality(OwnIdx))
    /\ \A k \in 1..(Len(slice_games) - 1) :
          LexLe(slice_games[k].numdate, slice_games[k + 1].numdate)
    /\ \A k \in DOMAIN slice_games :
          Occurrences(slice_games, slice_games[k])
              <= Occurrences(RecordsAt(all_game_stats, OwnIdx), slice_games[k])
    /\ \A i \in OwnIdx :
          (slice_games # <<>> /\ ~LexLe(all_game_stats[i].numdate, slice_games[1].numdate))
              => Occurrences(slice_games, all_game_stats[i])
                    = Occurrences(RecordsAt(all_game_stats, OwnIdx), all_game_stats[i])

\* the statistics of a result: everything but the name
Statistics(result) ==
    IF result = None THEN None ELSE Some([result[1] EXCEPT !.player_name = ""])

\* C15 as stated: the slice is the tail by numdate, and the statistics of the
\* result are the same for every permutation of the input collection.
C15_AsStated ==
    spc = "last_x" =>
        /\ SliceIsLatest
        /\ \A f \in Perms(Len(all_game_stats)) :
              Statistics(calculate_last_x_games_averages(
                             Permuted(all_game_stats, f), 42, 2026, "DUKE", num_games))
                  = Statistics(selected)

\* C15 (amended): calculate_last_x_games_averages sorts the records of
\* (pid, year, team) ascending by numdate and takes the tail of length
\* num_games, so no record left out has a greater numdate than a selected
\* one; when those records carry pairwise distinct numdates, the selected
\* records are the num_games records of the greatest numdate and the result
\* is the same for every permutation of the input.
C15_LatestGamesWhateverTheOrder ==
    spc = "last_x" =>
        /\ SliceIsLatest
        /\ DistinctDates =>
              /\ {slice_games[k] : k \in DOMAIN slice_games}
                    = {all_game_stats[i] : i \in LatestIdx}
              /\ Len(slice_games) = Cardinality(LatestIdx)
              /\ \A f \in Perms(Len(all_game_stats)) :
                    calculate_last_x_games_averages(
                        Permuted(all_game_stats, f), 42, 2026, "DUKE", num_games)
                        = selected

\* the two latest of three records that arrive out of order ("20", "10", "2")
C15_Witness ==
    /\ spc = "last_x"
    /\ num_games = 2
    /\ Cardinality(OwnIdx) = 3
    /\ DistinctDates
    /\ all_game_stats[1].numdate = <<2, 0>>
    /\ all_game_stats[2].numdate = <<1, 0>>
    /\ <<slice_games[1].numdate, slice_games[2].numdate>> = << <<2>>, <<2, 0>> >>
    /\ selected # None

\* the positions of the own records whose numdate lies in the closed range
InRangeIdx ==
    {i \in OwnIdx :
        /\ LexLe(start_date_num, all_game_stats[i].numdate)
        /\ LexLe(all_game_stats[i].numdate, end_date_num)}

\* C16: calculate_player_averages_by_date_range takes exactly the records of
\* (pid, year, team) whose numdate d satisfies start <= d <= end as strings:
\* a record dated start_date_num or end_date_num is taken, a record outside
\* the closed range never is, and the result is computed from those records.
C16_ClosedDateRange ==
    spc = "range" =>
        /\ slice_games = RecordsAt(all_game_stats, InRangeIdx)
        /\ \A i \in OwnIdx :
              (/\ all_game_stats[i].numdate \in {start_date_num, end_date_num}
               /\ LexLe(start_date_num, end_date_num))
                  => \E k \in DOMAIN slice_games : slice_games[k] = all_game_stats[i]
        /\ \E name \in OwnNames :
              selected = calculate_averages_for_games(
                             RecordsAt(all_game_stats, InRangeIdx), 42, 2026, "DUKE", name)

\* the range "10" to "2", not empty among strings: the records dated at its
\* two ends are taken, the record dated "20" is not
C16_Witness ==
    /\ spc = "range"
    /\ start_date_num = <<1, 0>>
    /\ end_date_num = <<2>>
    /\ {all_game_stats[i].numdate : i \in OwnIdx} = {<<1, 0>>, <<2>>, <<2, 0>>}
    /\ {slice_games[k].numdate : k \in DOMAIN slice_games} = {<<1, 0>>, <<2>>}
    /\ selected # None
    /\ selected[1].games_played = 2

\* no record matches the selection
NothingMatches ==
    \/ spc = "last_x" /\ OwnIdx = {}
    \/ spc = "range" /\ InRangeIdx = {}

\* C17: when no record matches the selection (none of the key in last-N
\* mode, none of the key inside the range in date-range mode), the selector
\* returns None, never a record of zeros.
C17_NoMatchIsNoData == NothingMatches => selected = None

\* records of other keys only, or own records outside the range, in a
\* collection that is not empty
C17_Witness ==
    /\ NothingMatches
    /\ Len(all_game_stats) = 2
    /\ selected = None
    /\ \/ spc = "last_x" /\ num_games = 2
       \/ spc = "range" /\ OwnIdx # {} /\ LexLe(start_date_num, end_date_num)

\* the name the claim gives the result: that of the first record of the slice
\* with a non-empty name, "Unknown" when there is none
FirstNonEmptyName(slice) ==
    IF \A k \in DOMAIN slice : slice[k].pp = ""
    THEN "Unknown"
    ELSE slice[CHOOSE k \in DOMAIN slice :
                   slice[k].pp # "" /\ \A j \in 1..(k - 1) : slice[j].pp = ""].pp

\* C19: the player_name of a selector's result is the name of the first record
\* of the slice that has a non-empty name, and "Unknown" when no record of
\* the slice has one.
C19_AsStated ==
    (spc \in {"last_x", "range"} /\ selected # None) =>
        selected[1].player_name = FirstNonEmptyName(slice_games)

\* what the code does: the name of the first record of the slice, empty or not
C19_NameOfFirstRecord ==
    (spc \in {"last_x", "range"} /\ selected # None) =>
        selected[1].player_name = slice_games[1].pp

(***************************************************************************)
(* Claims about the grouping driver.                                       *)
(***************************************************************************)
\* the positions of the records with a pid, a year and a non-empty team
KeyedIdx ==
    {i \in DOMAIN all_game_stats :
        /\ all_game_stats[i].pid # None
        /\ all_game_stats[i].year # None
        /\ all_game_stats[i].tt # ""}

KeyAt(i) ==
    <<all_game_stats[i].pid[1], all_game_stats[i].year[1], all_game_stats[i].tt>>

\* the positions of the records of one key
IdxOfKey(key) == {i \in KeyedIdx : KeyAt(i) = key}

\* the keys with at least one game with minutes > 0
KeysWithMinutes ==
    {KeyAt(i) : i \in {j \in KeyedIdx : j \in Qualifying(all_game_stats)}}

\* the positions of the season-averages population that carry the key
AveragesOfKey(key) ==
    {k \in DOMAIN season_averages :
        <<season_averages[k].pid, season_averages[k].year, season_averages[k].team>> = key}

\* C18: the grouping driver partitions the records by (pid, year, team): a
\* record without pid or year or with an empty team is skipped and the batch
\* goes on, every other record lands in exactly one group, the one of its
\* key, and the season-averages population holds exactly one record for each
\* group with a game with minutes > 0 and none for any other group.
C18_GroupsPartitionTheRecords ==
    avg_result # "pending" =>
        /\ DOMAIN player_season_games = {KeyAt(i) : i \in KeyedIdx}
        /\ \A key \in DOMAIN player_season_games :
              player_season_games[key] = RecordsAt(all_game_stats, IdxOfKey(key))
        /\ \A key \in KeysWithMinutes :
              /\ Cardinality(AveragesOfKey(key)) = 1
              /\ \A k \in AveragesOfKey(key) :
                    season_averages[k].games_played
                        = Cardinality(IdxOfKey(key) \cap Qualifying(all_game_stats))
        /\ Len(season_averages) = Cardinality(KeysWithMinutes)

\* a record without pid ahead of a player who never played and of a player
\* with a game: two groups, one record in the population
C18_Witness ==
    /\ avg_result # "pending"
    /\ Len(all_game_stats) = 3
    /\ all_game_stats[1].pid = None
    /\ Cardinality(DOMAIN player_season_games) = 2
    /\ Cardinality(KeysWithMinutes) = 1
    /\ Len(season_averages) = 1
    /\ season_averages[1].games_played = 1

(***************************************************************************)
(* Claims about batch ranking.                                             *)
(***************************************************************************)
\* the average every pct_X of PlayerSeasonPercentiles is named after
AverageRankedAs ==
    [pct_min_per |-> "avg_min_per", pct_o_rtg |-> "avg_o_rtg",
     pct_usg |-> "avg_usg", pct_e_fg |-> "avg_e_fg",
     pct_ts_per |-> "avg_ts_per", pct_orb_per |-> "avg_orb_per",
     pct_drb_per |-> "avg_drb_per", pct_ast_per |-> "avg_ast_per",
     pct_to_per |-> "avg_to_per", pct_dunks_made |-> "avg_dunks_made",
     pct_dunks_att |-> "avg_dunks_att", pct_rim_made |-> "avg_rim_made",
     pct_rim_att |-> "avg_rim_att", pct_mid_made |-> "avg_mid_made",
     pct_mid_att |-> "avg_mid_att", pct_two_pm |-> "avg_two_pm",
     pct_two_pa |-> "avg_two_pa", pct_tpm |-> "avg_tpm",
     pct_tpa |-> "avg_tpa", pct_ftm |-> "avg_ftm", pct_fta |-> "avg_fta",
     pct_bpm_rd |-> "avg_bpm_rd", pct_obpm |-> "avg_obpm",
     pct_dbpm |-> "avg_dbpm", pct_bpm_net |-> "avg_bpm_net",
     pct_pts |-> "avg_pts", pct_orb |-> "avg_orb", pct_drb |-> "avg_drb",
     pct_ast |-> "avg_ast", pct_tov |-> "avg_tov", pct_stl |-> "avg_stl",
     pct_blk |-> "avg_blk", pct_stl_per |-> "avg_stl_per",
     pct_blk_per |-> "avg_blk_per", pct_pf |-> "avg_pf",
     pct_possessions |-> "avg_possessions", pct_bpm |-> "avg_bpm",
     pct_sbpm |-> "avg_sbpm", pct_inches |-> "avg_inches",
     pct_opstyle |-> "avg_opstyle", pct_quality |-> "avg_quality",
     pct_win1 |-> "avg_win1", pct_win2 |-> "avg_win2"]

\* the column of one average over the whole population, in input order
ColumnOf(f) == [j \in DOMAIN all_season_averages |-> all_season_averages[j][f]]

\* C20: batch ranking produces exactly one percentile record per input
\* averages record, with the same pid, year, team and player_name, in which
\* each pct_X is calculate_percentile of the avg_X of that record against the
\* avg_X of the whole input population, never against another statistic.
C20_OneRecordPerAverageRankedByColumn ==
    pct_result # "pending" =>
        /\ Len(season_percentiles) = Len(all_season_averages)
        /\ \A i \in DOMAIN all_season_averages :
              LET avg == all_season_averages[i]
                  pct == season_percentiles[i]
              IN  /\ DOMAIN pct = {"pid", "year", "team", "player_name"}
                                      \cup DOMAIN AverageRankedAs
                  /\ <<pct.pid, pct.year, pct.team, pct.player_name>>
                        = <<avg.pid, avg.year, avg.team, avg.player_name>>
                  /\ \A f \in DOMAIN AverageRankedAs :
                        pct[f] = calculate_percentile(avg[AverageRankedAs[f]],
                                                      ColumnOf(AverageRankedAs[f]))

\* three players of whom one leads the assists and trails in points: his two
\* ranks differ, and the two players equal in everything share theirs
C20_Witness ==
    /\ pct_result = "Ok"
    /\ Len(season_percentiles) = 3
    /\ \E i \in DOMAIN season_percentiles :
          /\ season_percentiles[i].player_name = "Jones"
          /\ season_percentiles[i].pct_ast = Rat(250, 3)
          /\ season_percentiles[i].pct_pts = Rat(50, 3)
    /\ \E i \in DOMAIN season_percentiles :
          /\ season_percentiles[i].player_name = "Brown"
          /\ season_percentiles[i].pct_ast = Rat(100, 3)
          /\ season_percentiles[i].pct_pts = Rat(200, 3)

(***************************************************************************)
(* Claims about the service.                                               *)
(***************************************************************************)
\* the positions of the rows of stats.game_stats that carry a whole key
KeyedRows ==
    {i \in DOMAIN db_game_stats :
        /\ db_game_stats[i].pid # None
        /\ db_game_stats[i].year # None
        /\ db_game_stats[i].tt # ""}

KeyOfRow(i) ==
    <<db_game_stats[i].pid[1], db_game_stats[i].year[1], db_game_stats[i].tt>>

\* the keys of the rows with minutes > 0: the groups that have an average
KeysOfAverages == {KeyOfRow(i) : i \in KeyedRows \cap Qualifying(db_game_stats)}

\* every group has been processed and every average is in the table, and the
\* population handed to the percentile step is the table
SeasonPopulationAssembled ==
    /\ avg_result = "Ok"
    /\ Len(avg_inserted) = Cardinality(KeysOfAverages)
    /\ \A key \in KeysOfAverages :
          \E k \in DOMAIN avg_inserted :
              <<avg_inserted[k].pid, avg_inserted[k].year, avg_inserted[k].team>> = key
    /\ SameRecords(all_season_averages, avg_inserted)

\* the player ids of the requested team and year
TeamPlayers ==
    {db_game_stats[i].pid[1] :
        i \in {j \in KeyedRows :
                  /\ db_game_stats[j].year = query_year
                  /\ Some(db_game_stats[j].tt) = team_code}}

\* the rolling average of a player of the team, None without a game with
\* minutes in the window
RollingAverageOf(pid) ==
    calculate_player_averages_by_date_range(db_game_stats, pid, query_year[1],
        team_code[1], start_date_str, end_date_str)

\* the rolling average of every player of the team is in rolling_averages
RollingPopulationAssembled ==
    \A pid \in TeamPlayers :
        RollingAverageOf(pid) # None =>
            \E i \in DOMAIN rolling_averages :
                rolling_averages[i].averages = RollingAverageOf(pid)[1]

\* C21: no percentile is computed before the averages of its cohort are
\* assembled: the step that computes the season percentiles is taken only
\* when the grouping driver has processed every group and inserted every
\* average, and the step that computes the percentiles of the rolling
\* endpoint only when the rolling average of every player of the team has
\* been computed.
C21_PercentilesAfterThePopulation ==
    [][/\ (pct_result = "pending" /\ pct_result' # "pending")
            => SeasonPopulationAssembled
       /\ (rpc # "Ok" /\ rpc' = "Ok") => RollingPopulationAssembled]_vars

\* both players of DUKE have a season percentile and a rolling percentile
C21_Witness ==
    /\ pct_result = "Ok"
    /\ Len(season_percentiles) = 2
    /\ rpc = "Ok"
    /\ Len(rolling_with_percentiles) = 2
    /\ Cardinality(TeamPlayers) = 2

\* the rolling average every pct_X of PlayerRollingAveragesWithPercentiles is
\* named after, the season-long constants left aside
RollingRankedAs ==
    [pct_min_per |-> "avg_min_per", pct_o_rtg |-> "avg_o_rtg",
     pct_usg |-> "avg_usg", pct_e_fg |-> "avg_e_fg",
     pct_ts_per |-> "avg_ts_per", pct_orb_per |-> "avg_orb_per",
     pct_drb_per |-> "avg_drb_per", pct_ast_per |-> "avg_ast_per",
     pct_to_per |-> "avg_to_per", pct_dunks_made |-> "avg_dunks_made",
     pct_dunks_att |-> "avg_dunks_att", pct_rim_made |-> "avg_rim_made",
     pct_rim_att |-> "avg_rim_att", pct_mid_made |-> "avg_mid_made",
     pct_mid_att |-> "avg_mid_att", pct_two_pm |-> "avg_two_pm",
     pct_two_pa |-> "avg_two_pa", pct_tpm |-> "avg_tpm",
     pct_tpa |-> "avg_tpa", pct_ftm |-> "avg_ftm", pct_fta |-> "avg_fta",
     pct_pts |-> "avg_pts", pct_orb |-> "avg_orb", pct_drb |-> "avg_drb",
     pct_ast |-> "avg_ast", pct_tov |-> "avg_tov", pct_stl |-> "avg_stl",
     pct_blk |-> "avg_blk", pct_stl_per |-> "avg_stl_per",
     pct_blk_per |-> "avg_blk_per", pct_pf |-> "avg_pf",
     pct_bpm |-> "avg_bpm", pct_obpm |-> "avg_obpm", pct_dbpm |-> "avg_dbpm"]

\* the mean rank of v among the values, as a percentage
RankAmong(v, values) ==
    LET less == Cardinality({j \in DOMAIN values : RLt(values[j], v)})
        equal == Cardinality({j \in DOMAIN values : values[j] = v})
    IN  RMul(RDiv(RAdd(F(less), RMul(Half, F(equal))), F(Len(values))), F(100))

\* the rolling avg_X of the entries of the response, in their order
ReturnedColumn(f) ==
    [j \in DOMAIN rolling_with_percentiles |->
        rolling_with_percentiles[j].rolling_avg.averages[f]]

PlayedOutsideTail ==
    Cardinality(OwnIdx \cap Qualifying(all_game_stats))
        - Cardinality(Qualifying(slice_games))

\* C23: in last-N mode the tail of num_games records is taken before the
\* minutes filter: the slice is the tail of all records of the player, with
\* or without minutes, games_played counts the records of that tail with
\* minutes > 0 and is at most num_games, every average is the mean over
\* those records alone, and the result is None when the tail holds no record
\* with minutes > 0, whatever the earlier records hold.
C23_TailBeforeMinutesFilter ==
    spc = "last_x" =>
        /\ SliceIsLatest
        /\ (selected = None) = (Qualifying(slice_games) = {})
        /\ selected # None =>
              /\ selected[1].games_played = Cardinality(Qualifying(slice_games))
              /\ selected[1].games_played <= num_games
              /\ \A stat \in DOMAIN MeanStatistic :
                    selected[1][stat] =
                        Rat(SumOver(Qualifying(slice_games), slice_games, MeanStatistic[stat]),
                            Cardinality(Qualifying(slice_games)))

\* Two games asked for, three on record: the latest is a game without
\* minutes, so one game is averaged and the earliest game, with minutes,
\* does not take its place.
C23_Witness ==
    /\ spc = "last_x"
    /\ num_games = 2
    /\ Cardinality(OwnIdx) = 3
    /\ Len(slice_games) = 2
    /\ slice_games[2].numdate = <<2, 0>>
    /\ slice_games[2].min_per = Some(0)
    /\ selected # None
    /\ selected[1].games_played = 1
    /\ PlayedOutsideTail = 1

\* one game asked for, the latest without minutes: no data, although an
\* earlier game has minutes
C23_WitnessNoData ==
    /\ spc = "last_x"
    /\ num_games = 1
    /\ Len(slice_games) = 1
    /\ selected = None
    /\ PlayedOutsideTail = 1

\* the selector that ran, on another collection with the same arguments
SelectorOn(games) ==
    IF spc = "last_x"
    THEN calculate_last_x_games_averages(games, 42, 2026, "DUKE", num_games)
    ELSE calculate_player_averages_by_date_range(games, 42, 2026, "DUKE",
                                                 start_date_num, end_date_num)

\* the collection without its p-th record
WithoutRecordAt(games, p) ==
    SubSeq(games, 1, p - 1) \o SubSeq(games, p + 1, Len(games))

\* C24: the result of a selector for (pid, year, team) depends only on the
\* records of that key and their relative order: it is the result on the
\* collection reduced to those records (so two collections with the same
\* such records in the same order give the same result), it does not change
\* when a record of another player, year or team or without a year is taken
\* out of the collection, and the record returned carries the pid, year and
\* team asked for.
C24_OnlyOwnRecordsCount ==
    spc # "input" =>
        /\ selected = SelectorOn(RecordsAt(all_game_stats, OwnIdx))
        /\ \A p \in DOMAIN all_game_stats \ OwnIdx :
              SelectorOn(WithoutRecordAt(all_game_stats, p)) = selected
        /\ selected # None =>
              <<selected[1].pid, selected[1].year, selected[1].team>>
                  = <<42, 2026, "DUKE">>

\* one record of the player between a record of another player and a record
\* of another team, all of one date: the result is that of his one game
C24_Witness ==
    /\ spc # "input"
    /\ Len(all_game_stats) = 3
    /\ OwnIdx = {2}
    /\ all_game_stats[1].pid = Some(7)
    /\ all_game_stats[3].tt = "UNC"
    /\ slice_games = <<all_game_stats[2]>>
    /\ selected # None
    /\ selected[1].games_played = 1

(***************************************************************************)
(* Claims about the season-averages population.                            *)
(***************************************************************************)
\* the games_played of the records of a population, added up
RECURSIVE GamesPlayedIn(_)
GamesPlayedIn(population) ==
    IF population = <<>> THEN 0
    ELSE population[Len(population)].games_played
             + GamesPlayedIn(SubSeq(population, 1, Len(population) - 1))

\* C25: in the season-averages population of the grouping driver no key
\* (pid, year, team) appears twice, and the games_played of its records add
\* up to the number of input records with pid and year present, a non-empty
\* team and minutes > 0.
C25_EveryQualifyingGameCountedOnce ==
    avg_result # "pending" =>
        /\ \A i, j \in DOMAIN season_averages :
              (<<season_averages[i].pid, season_averages[i].year, season_averages[i].team>>
                  = <<season_averages[j].pid, season_averages[j].year, season_averages[j].team>>)
                  => i = j
        /\ GamesPlayedIn(season_averages)
              = Cardinality(KeyedIdx \cap Qualifying(all_game_stats))

\* two games of a player for DUKE and one for UNC: two records, three games
C25_Witness ==
    /\ avg_result # "pending"
    /\ Len(all_game_stats) = 3
    /\ Len(season_averages) = 2
    /\ \A i \in DOMAIN season_averages : season_averages[i].pid = 42
    /\ GamesPlayedIn(season_averages) = 3

(***************************************************************************)
(* Claims about the response of the rolling-averages endpoint.             *)
(***************************************************************************)
\* the positions of the response that carry the player id
EntriesOf(pid) ==
    {i \in DOMAIN rolling_with_percentiles :
        rolling_with_percentiles[i].rolling_avg.averages.pid = pid}

\* C26 as stated: the response of the rolling-averages endpoint holds at most
\* one entry per player id of the requested team and year, so each player
\* contributes one value to every percentile column.
C26_AsStated ==
    rpc = "Ok" =>
        \A pid \in TeamPlayers :
            /\ Cardinality(EntriesOf(pid)) <= 1
            /\ \A f \in DOMAIN RollingRankedAs :
                  Len(ReturnedColumn(RollingRankedAs[f]))
                      = Cardinality({p \in TeamPlayers : EntriesOf(p) # {}})

(***************************************************************************)
(* Claims about the rank of a member of the population (ties included).    *)
(***************************************************************************)
\* `value` is one of the values of the population
IsMember == \E i \in DOMAIN sorted_data : sorted_data[i] = value

\* 50/n and 100 - 50/n
LowestRank(n) == Rat(50, n)

HighestRank(n) == Rat(100 * n - 50, n)

\* the f64 values at most one unit in the last place away from x > 0
WithinOneUlp(x) == {Pred64(x), x, Succ64(x)}

FirstMemberRanked == Ranked /\ sorted_data # <<>> /\ value = sorted_data[1]

\* the ranks of the members from the k-th on, added up exactly
RECURSIVE SumOfRanks(_)
SumOfRanks(k) ==
    IF k > Len(sorted_data) THEN F(0)
    ELSE RAdd(calculate_percentile(sorted_data[k], sorted_data), SumOfRanks(k + 1))

\* the f64 ranks of the first k members, added up in their order
RECURSIVE SumOfRanks64(_)
SumOfRanks64(k) ==
    IF k = 1 THEN percentile64
    ELSE Add64(SumOfRanks64(k - 1), calculate_percentile64(sorted_data[k], sorted_data))

\* x and the k values of f64 above it, x and the k values below it
RECURSIVE Above64(_, _)
Above64(x, k) == IF k = 0 THEN {x} ELSE {x} \cup Above64(Succ64(x), k - 1)

RECURSIVE Below64(_, _)
Below64(x, k) == IF k = 0 THEN {x} ELSE {x} \cup Below64(Pred64(x), k - 1)

\* C28 as stated, of the f64 the code returns: the ranks of the n members of
\* a column add up to exactly 50 x n.
C28_AsStated ==
    FirstMemberRanked =>
        SumOfRanks64(Len(sorted_data)) = FromInt64(50 * Len(sorted_data))

\* C28 (amended): for a non-empty population of size n the ranks of its n
\* members add up to exactly 50 x n in exact arithmetic, whatever the ties;
\* the f64 results, added in the order of the members, give 50 x n up to
\* the accumulated rounding error, at most n + 1 units in the last place.
C28_MeanRankIsFifty ==
    FirstMemberRanked =>
        LET n == Len(sorted_data)
        IN  /\ RAdd(percentile, SumOfRanks(2)) = F(50 * n)
            /\ SumOfRanks64(n) \in Above64(FromInt64(50 * n), n + 1)
                                      \cup Below64(FromInt64(50 * n), n + 1)

\* a column of three with a tie at its top: 50/3 + 200/3 + 200/3 = 150, and
\* 16.666666666666664 + 66.66666666666666 + 66.66666666666666 is the f64
\* below 150.0
C28_Witness ==
    /\ FirstMemberRanked
    /\ Len(sorted_data) = 3
    /\ sorted_data[2] = sorted_data[3]
    /\ sorted_data[1] # sorted_data[2]
    /\ percentile = Rat(50, 3)
    /\ SumOfRanks(2) = Rat(400, 3)
    /\ SumOfRanks64(3) = Pred64(FromInt64(150))

(***************************************************************************)
(* Claims about the startup of the service and about the inserts.          *)
(***************************************************************************)
\* the season averages and the season percentiles are computed from the
\* rows fetched and are all in their tables
StartupSucceeded ==
    /\ all_game_stats = db_game_stats
    /\ avg_result = "Ok"
    /\ avg_inserted = season_averages
    /\ SameRecords(all_season_averages, avg_inserted)
    /\ pct_result = "Ok"
    /\ pct_inserted = season_percentiles
    /\ Len(season_percentiles) = Len(all_season_averages)

\* C29: the server starts to listen, and a request is handled, only after
\* the season averages and then the season percentiles have been computed
\* and inserted successfully, the percentiles after the averages; when the
\* database setup, the connection, a fetch, an insert of an average or an
\* insert of a percentile record fails, the process ends, and a process
\* that has ended never listens and never handles a request.
C29_ServesOnlyAfterStartup ==
    [][/\ (mpc' = "serving" \/ rpc' # "idle") => (mpc' = "serving" /\ StartupSucceeded')
       /\ pct_result' # "pending" => avg_result = "Ok"
       /\ (avg_result' = "Err" \/ pct_result' = "Err") => mpc' = "ended"
       /\ mpc # mpc' =>
             \/ mpc' = "ended"
             \/ <<mpc, mpc'>> \in
                   {<<"init_db", "connect_to_scylla">>,
                    <<"connect_to_scylla", "get_all_game_stats">>,
                    <<"get_all_game_stats", "season_averages">>,
                    <<"season_averages", "get_all_season_averages">>,
                    <<"get_all_season_averages", "season_percentiles">>,
                    <<"season_percentiles", "bind">>,
                    <<"bind", "serving">>}
       /\ mpc = "ended" => (mpc' = "ended" /\ rpc' = "idle")]_vars

\* the server answers a request after two averages and two percentile
\* records have been inserted
C29_Witness ==
    /\ mpc = "serving"
    /\ rpc = "Ok"
    /\ Len(avg_inserted) = 2
    /\ Len(pct_inserted) = 2

\* the second insert of a percentile record fails: the process has ended
\* and no request is handled
C29_WitnessEnded ==
    /\ mpc = "ended"
    /\ avg_result = "Ok"
    /\ pct_result = "Err"
    /\ Len(pct_inserted) = 1
    /\ rpc = "idle"

\* `inserted` holds the first records of `computed`, in their order, and not
\* the last one unless there is none
StoppedBeforeTheEnd(inserted, computed) ==
    /\ Len(inserted) <= Len(computed)
    /\ inserted = SubSeq(computed, 1, Len(inserted))
    /\ Len(inserted) < Len(computed) \/ computed = <<>>

\* C30: the inserts of the season averages stop at the first failure with an
\* error: the records inserted so far, the first ones of the loop, stay in
\* the table, no later record is inserted, nothing is rolled back, and the
\* process goes no further; without a failure every record is inserted.
\* The same holds for the percentile records, and for an empty population
\* of averages the percentile step returns Ok and inserts nothing.
C30_InsertsStopAtFirstFailure ==
    [][/\ avg_result' = "Err" => StoppedBeforeTheEnd(avg_inserted', season_averages')
       /\ avg_result' = "Ok" => avg_inserted' = season_averages'
       /\ pct_result' = "Err" => StoppedBeforeTheEnd(pct_inserted', season_percentiles')
       /\ pct_result' = "Ok" => pct_inserted' = season_percentiles'
       /\ (pct_result' # "pending" /\ all_season_averages' = <<>>)
             => (pct_result' = "Ok" /\ pct_inserted' = <<>>)
       /\ avg_result # "pending" => avg_inserted' = avg_inserted
       /\ pct_result # "pending" => pct_inserted' = pct_inserted
       /\ avg_result = "Err" => (pct_inserted' = <<>> /\ pct_result' = "pending")]_vars

\* the second insert of an average fails: the first average stays in the
\* table, and no percentile record is computed or inserted
C30_Witness ==
    /\ avg_result = "Err"
    /\ Len(season_averages) = 2
    /\ avg_inserted = <<season_averages[1]>>
    /\ pct_result = "pending"
    /\ pct_inserted = <<>>
    /\ mpc = "ended"

\* no row with minutes: no average, and the percentile step succeeds
\* without an insert
C30_WitnessEmpty ==
    /\ db_game_stats # <<>>
    /\ avg_result = "Ok"
    /\ all_season_averages = <<>>
    /\ pct_result = "Ok"
    /\ pct_inserted = <<>>
    /\ mpc = "serving"

====
